---------------------------- MODULE Spec2Model ----------------------------
(***************************************************************************)
(* A model of the not-broadway scraper core:                               *)
(*   - the embedded-array scanner extract_js_array                         *)
(*     (src/scraper/platforms/wordpress_spektrix.py, lines 252-308),       *)
(*     one action per branch of its while loop;                            *)
(*   - the record normaliser _parse_spektrix_event (lines 44-166) and the  *)
(*     text utilities of src/scraper/utils/parsing.py it calls;            *)
(*   - the scrape() sessions of the three platform scrapers, the Spektrix  *)
(*     strategy chain one action per source attempt (lines 168-377);       *)
(*   - BaseScraper.run and validate_show                                   *)
(*     (src/scraper/base/base_scraper.py, lines 120-193);                  *)
(*   - BaseScraper.fetch_page (lines 62-118), one action per way a request *)
(*     can end;                                                            *)
(*   - Show, its construction and to_dict, and ScraperResult.to_dict       *)
(*     (src/scraper/base/data_schema.py);                                  *)
(*   - parse_date_range and extract_price_range on texts of their own, and *)
(*     OvationTixScraper._extract_event_from_row on rows of its own.       *)
(* Python's None is the record None; a Python string is a sequence of      *)
(* one-character strings; positions are 0-based as in the source.          *)
(***************************************************************************)
EXTENDS Integers, Sequences, FiniteSets, TLC

VARIABLES
    pc,           \* position of the modelled routine
    text,         \* extract_js_array: the page text (argument text)
    kwlen,        \* extract_js_array: length of the anchor keyword in start_pattern
    i,            \* extract_js_array: local i
    depth,        \* extract_js_array: local depth
    in_string,    \* extract_js_array: local in_string
    string_char,  \* extract_js_array: local string_char ("" models None)
    escape_next,  \* extract_js_array: local escape_next
    bracket_pos,  \* extract_js_array: local bracket_pos
    result,       \* extract_js_array: the returned value
    event_data,   \* _parse_spektrix_event: the argument event_data
    show,         \* _parse_spektrix_event: the returned value
    platform,     \* the scraper class whose scrape() is running
    shows,        \* scrape: the local list shows of the running strategy
    ep,           \* _scrape_from_api: index of the loop over endpoints
    kw,           \* _scrape_from_page: index of the loop over var_keyword
    attempted,    \* history: the sources invoked so far, with what each gave
    log,          \* the records written through self.logger
    sres,         \* the value scrape() returned
    raised,       \* the exception that escaped, if one did
    rres,         \* the value run() returned
    args,         \* the arguments of the function that is called
    ret,          \* what the called function returned or raised
    today,        \* the year of datetime.now(), which dateutil falls back on
    attempt,      \* fetch_page: the loop variable attempt
    answers,      \* history: what each request of fetch_page met
    slept,        \* history: the seconds of each time.sleep of fetch_page
    response      \* fetch_page: the returned value

scanVars == <<text, kwlen, i, depth, in_string, string_char, escape_next,
              bracket_pos, result>>

parseVars == <<event_data, show>>

sessionVars == <<platform, shows, ep, kw, attempted, log, sres, raised, rres>>

callVars == <<args, ret, today>>

fetchVars == <<attempt, answers, slept, response>>

vars == <<pc, scanVars, parseVars, sessionVars, callVars, fetchVars>>

(***************************************************************************)
(* Values                                                                  *)
(***************************************************************************)
None == [none |-> TRUE]

Str(s) == [str |-> s]

\* the variables of a routine that is not running
NoCall ==
    /\ args = None
    /\ ret = None
    /\ today = 0

NoFetch ==
    /\ attempt = 0
    /\ answers = <<>>
    /\ slept = <<>>
    /\ response = None

NoScan ==
    /\ text = <<>>
    /\ kwlen = 0
    /\ i = 0
    /\ depth = 0
    /\ in_string = FALSE
    /\ string_char = ""
    /\ escape_next = FALSE
    /\ bracket_pos = 0
    /\ result = None

NoParse ==
    /\ event_data = None
    /\ show = None

NoSession ==
    /\ platform = ""
    /\ shows = <<>>
    /\ ep = 0
    /\ kw = 0
    /\ attempted = <<>>
    /\ log = <<>>
    /\ sres = None
    /\ raised = None
    /\ rres = None

LB == "["

RB == "]"

DQ == "\""

SQ == "'"

BS == "\\"

Min(S) == CHOOSE x \in S : \A y \in S : x <= y

\* Python text[p]
At(t, p) == t[p + 1]

\* Python text[a:b] for 0 <= a <= b <= len(text)
Slice(t, a, b) == SubSeq(t, a + 1, b)

Rep(ch, n) == [j \in 1..n |-> ch]

(***************************************************************************)
(* Bounds of the model                                                     *)
(***************************************************************************)
\* longest enumerated array body
MaxBody == 4

\* The scan bound of line 305.  The source's value is 500000; the model
\* keeps the comparison and scales the number so that texts on both sides
\* of the bound can be enumerated.
ScanLimit == 24

\* filler characters that push a body to the scan bound
PadLen == ScanLimit - 2

\* find('[', start_pos - 10, start_pos + 10), line 260
LookBack == 10

LookAhead == 10

\* len('var events') = len('let events') = 10, len('const events') = 12
KeywordLens == {10, 12}

(***************************************************************************)
(* re.search(re.escape(var_keyword) + r'\s*=\s*', text), lines 254, 312.   *)
(* The keyword's characters are modelled by "k".                           *)
(***************************************************************************)
RECURSIVE SkipWs(_, _)
SkipWs(t, p) ==
    IF p < Len(t) /\ At(t, p) \in {" ", "\t", "\n"} THEN SkipWs(t, p + 1) ELSE p

\* end of the match of the pattern that starts at p, or -1
MatchEndAt(t, p, n) ==
    IF p + n <= Len(t) /\ \A j \in 0..(n - 1) : At(t, p + j) = "k"
    THEN LET q == SkipWs(t, p + n)
         IN  IF q < Len(t) /\ At(t, q) = "=" THEN SkipWs(t, q + 1) ELSE -1
    ELSE -1

\* match.end() of the leftmost match, or -1 when re.search returns None
SearchEnd(t, n) ==
    LET starts == {p \in 0..Len(t) : MatchEndAt(t, p, n) >= 0}
    IN  IF starts = {} THEN -1 ELSE MatchEndAt(t, Min(starts), n)

\* match.start() of the leftmost match, or -1
SearchStart(t, n) ==
    LET starts == {p \in 0..Len(t) : MatchEndAt(t, p, n) >= 0}
    IN  IF starts = {} THEN -1 ELSE Min(starts)

\* Python's clipping of a slice index
PyClip(t, p) ==
    IF p < 0 THEN (IF p + Len(t) < 0 THEN 0 ELSE p + Len(t))
    ELSE IF p > Len(t) THEN Len(t) ELSE p

\* text.find(ch, lo, hi)
Find(t, ch, lo, hi) ==
    LET hits == {p \in PyClip(t, lo)..(PyClip(t, hi) - 1) : At(t, p) = ch}
    IN  IF hits = {} THEN -1 ELSE Min(hits)

\* line 260: the window opens LookBack characters before match.end()
WindowStart(start_pos) == start_pos - LookBack

WindowEnd(start_pos) == start_pos + LookAhead

\* line 260
FindBracket(t, start_pos) ==
    Find(t, LB, WindowStart(start_pos), WindowEnd(start_pos))

(***************************************************************************)
(* The scan loop's tests, lines 275-305                                    *)
(***************************************************************************)
\* line 280
IsEscapeChar(ch) == ch = BS

\* line 286
OpensString(ch, ins) == ch \in {DQ, SQ} /\ ~ins

\* a bug: either quote closes a string
ClosesStringMut(ch, ins, sc) == ch \in {DQ, SQ} /\ ins

\* line 289
ClosesString(ch, ins, sc) == ch = sc /\ ins

\* lines 296-298: depth after a ']' closes the array
ArrayClosed(d) == d = 0

\* a bug: the index is not moved
AdvanceMut(p) == p

\* lines 277, 282, 302: i += 1
Advance(p) == p + 1

\* line 305
PastLimit(p, b) == p - b > ScanLimit

(***************************************************************************)
(* extract_js_array, one action per step                                   *)
(***************************************************************************)
\* lines 254-269
Search ==
    /\ pc = "search"
    /\ \E start_pos \in {SearchEnd(text, kwlen)} :
       \E bp \in {IF start_pos = -1 THEN -1 ELSE FindBracket(text, start_pos)} :
           IF start_pos = -1 \/ bp = -1
           THEN /\ result' = None
                /\ pc' = "done"
                /\ UNCHANGED <<i, depth, in_string, string_char, escape_next,
                               bracket_pos>>
           ELSE /\ bracket_pos' = bp
                /\ i' = bp
                /\ depth' = 0
                /\ in_string' = FALSE
                /\ string_char' = ""
                /\ escape_next' = FALSE
                /\ pc' = "scan"
                /\ UNCHANGED result
    /\ UNCHANGED <<text, kwlen, parseVars, sessionVars>>
    /\ UNCHANGED <<callVars, fetchVars>>

\* lines 275-278
ScanEscaped ==
    /\ pc = "scan"
    /\ i < Len(text)
    /\ escape_next
    /\ escape_next' = FALSE
    /\ i' = Advance(i)
    /\ UNCHANGED <<pc, text, kwlen, depth, in_string, string_char,
                   bracket_pos, result, parseVars, sessionVars>>
    /\ UNCHANGED <<callVars, fetchVars>>

\* lines 280-283
ScanBackslash ==
    /\ pc = "scan"
    /\ i < Len(text)
    /\ ~escape_next
    /\ IsEscapeChar(At(text, i))
    /\ escape_next' = TRUE
    /\ i' = Advance(i)
    /\ UNCHANGED <<pc, text, kwlen, depth, in_string, string_char,
                   bracket_pos, result, parseVars, sessionVars>>
    /\ UNCHANGED <<callVars, fetchVars>>

\* lines 285-306
ScanChar ==
    /\ pc = "scan"
    /\ i < Len(text)
    /\ ~escape_next
    /\ ~IsEscapeChar(At(text, i))
    /\ LET char == At(text, i)
           opens  == OpensString(char, in_string)
           closes == ~opens /\ ClosesString(char, in_string, string_char)
           counts == ~opens /\ ~closes /\ ~in_string
           d == IF counts /\ char = LB THEN depth + 1
                ELSE IF counts /\ char = RB THEN depth - 1
                ELSE depth
           found == counts /\ char = RB /\ ArrayClosed(d)
       IN  /\ in_string' = IF opens THEN TRUE
                           ELSE IF closes THEN FALSE ELSE in_string
           /\ string_char' = IF opens THEN char
                             ELSE IF closes THEN "" ELSE string_char
           /\ depth' = d
           /\ IF found
              THEN /\ result' = Str(Slice(text, bracket_pos, i + 1))
                   /\ pc' = "done"
                   /\ i' = i
              ELSE /\ i' = Advance(i)
                   /\ IF PastLimit(i', bracket_pos)
                      THEN /\ result' = None
                           /\ pc' = "done"
                      ELSE UNCHANGED <<result, pc>>
    /\ UNCHANGED <<text, kwlen, escape_next, bracket_pos, parseVars,
                   sessionVars>>
    /\ UNCHANGED <<callVars, fetchVars>>

\* line 271 false, line 308
ScanExhausted ==
    /\ pc = "scan"
    /\ i >= Len(text)
    /\ result' = None
    /\ pc' = "done"
    /\ UNCHANGED <<text, kwlen, i, depth, in_string, string_char,
                   escape_next, bracket_pos, parseVars, sessionVars>>
    /\ UNCHANGED <<callVars, fetchVars>>

(***************************************************************************)
(* Inputs of the scanner                                                   *)
(***************************************************************************)
BodyChars == {LB, RB, DQ, SQ, BS, "a"}

RECURSIVE SeqsUpTo(_, _)
SeqsUpTo(S, n) ==
    IF n = 0 THEN {<<>>}
    ELSE LET shorter == SeqsUpTo(S, n - 1)
         IN  shorter \cup {Append(s, c) : s \in shorter, c \in S}

Bodies == SeqsUpTo(BodyChars, MaxBody)

\* a body with n neutral characters inserted after its first character
Padded(body, n) ==
    IF body = <<>> THEN body
    ELSE <<Head(body)>> \o Rep("a", n) \o Tail(body)

Anchor(n) == Rep("k", n) \o <<"=">>

\* 'var events = [{"a": "x]y", "b": 1},];'
ExampleArray ==
    <<"[", "{", "\"", "a", "\"", ":", " ", "\"", "x", "]", "y", "\"", ",",
      " ", "\"", "b", "\"", ":", " ", "1", "}", ",", "]">>

ExampleText == Rep("k", 10) \o <<" ", "=", " ">> \o ExampleArray \o <<";">>

InitScan ==
    /\ pc = "search"
    /\ kwlen \in KeywordLens
    /\ \/ \E pre \in {<<>>, <<LB>>},
             gap \in {<<>>, <<" ">>, Rep("a", LookAhead)},
             body \in Bodies, pad \in {0, PadLen} :
               text = pre \o Anchor(kwlen) \o gap \o Padded(body, pad)
       \/ \E body \in Bodies : text = body
       \/ kwlen = 10 /\ text = ExampleText
    /\ i = 0
    /\ depth = 0
    /\ in_string = FALSE
    /\ string_char = ""
    /\ escape_next = FALSE
    /\ bracket_pos = 0
    /\ result = None
    /\ NoParse
    /\ NoSession
    /\ NoCall
    /\ NoFetch

\* the while loop of lines 271-308
ScanLoop == ScanEscaped \/ ScanBackslash \/ ScanChar \/ ScanExhausted

NextScan == Search \/ ScanLoop

SpecScan == InitScan /\ [][NextScan]_vars

\* The loop is sequential code: an iteration that can be taken is taken.
FairScan == SpecScan /\ WF_vars(ScanLoop)

(***************************************************************************)
(* Python values of the record normaliser.  A str is Str(chars), JSON      *)
(* null is None, a number is Num(n), a list is List(items); a dict is a     *)
(* function from the keys it holds to their values.                        *)
(***************************************************************************)
Num(n) == [num |-> n]

List(xs) == [list |-> xs]

IsNone(v) == "none" \in DOMAIN v

IsStr(v) == "str" \in DOMAIN v

IsNum(v) == "num" \in DOMAIN v

IsList(v) == "list" \in DOMAIN v

IsDict(v) == ~IsNone(v) /\ ~IsStr(v) /\ ~IsNum(v) /\ ~IsList(v)

\* Python truth value: '', None, 0, [] and {} are false
Truthy(v) ==
    IF IsNone(v) THEN FALSE
    ELSE IF IsStr(v) THEN v.str # <<>>
    ELSE IF IsNum(v) THEN v.num # 0
    ELSE IF IsList(v) THEN v.list # <<>>
    ELSE DOMAIN v # {}

\* dict.get(k, dflt)
Get(d, k, dflt) == IF k \in DOMAIN d THEN d[k] ELSE dflt

\* x or None
OrNone(v) == IF Truthy(v) THEN v ELSE None

Empty == Str(<<>>)

\* a fixed text: a str held as one piece
Msg(s) == Str(<<s>>)

\* an exception object; str(e) is its msg
Exc(type, msg) == [type |-> type, msg |-> Msg(msg)]

\* str(v) for the values of the model (numbers are single digits)
PyStr(v) ==
    IF IsStr(v) THEN v.str
    ELSE IF IsNone(v) THEN <<"N", "o", "n", "e">>
    ELSE <<ToString(v.num)>>

StartsWith(t, pre) == Len(t) >= Len(pre) /\ SubSeq(t, 1, Len(pre)) = pre

\* sub in t
Contains(t, sub) ==
    \E p \in 0..(Len(t) - Len(sub)) : SubSeq(t, p + 1, p + Len(sub)) = sub

RECURSIVE LStripOf(_, _)
LStripOf(t, cs) ==
    IF t # <<>> /\ Head(t) \in cs THEN LStripOf(Tail(t), cs) ELSE t

RECURSIVE RStripOf(_, _)
RStripOf(t, cs) ==
    IF t # <<>> /\ t[Len(t)] \in cs
    THEN RStripOf(SubSeq(t, 1, Len(t) - 1), cs) ELSE t

UpperLetters ==
    <<"A", "B", "C", "D", "E", "F", "G", "H", "I", "J", "K", "L", "M",
      "N", "O", "P", "Q", "R", "S", "T", "U", "V", "W", "X", "Y", "Z">>

LowerLetters ==
    <<"a", "b", "c", "d", "e", "f", "g", "h", "i", "j", "k", "l", "m",
      "n", "o", "p", "q", "r", "s", "t", "u", "v", "w", "x", "y", "z">>

LowerChar(c) ==
    IF \E j \in 1..26 : UpperLetters[j] = c
    THEN LowerLetters[CHOOSE j \in 1..26 : UpperLetters[j] = c]
    ELSE c

\* str.lower()
Lower(t) == [j \in 1..Len(t) |-> LowerChar(t[j])]

(***************************************************************************)
(* clean_text, src/scraper/utils/parsing.py lines 108-135                  *)
(***************************************************************************)
\* \s of the re module and the characters str.strip() removes
Whitespace == {" ", "\t", "\n"}

\* re.sub(r'\s+', ' ', text), line 122: each run of whitespace, from the
\* leftmost on, becomes one blank
RECURSIVE CollapseWs(_)
CollapseWs(t) ==
    LET blanks == {j \in 1..Len(t) : t[j] \in Whitespace}
    IN  IF blanks = {} THEN t
        ELSE LET j == Min(blanks)
             IN  SubSeq(t, 1, j - 1) \o <<" ">>
                   \o CollapseWs(LStripOf(SubSeq(t, j + 1, Len(t)),
                                          Whitespace))

\* text.strip(), line 125
Strip(t) == RStripOf(LStripOf(t, Whitespace), Whitespace)

\* text.replace(old, new): the occurrences of old are taken from the left
\* and do not overlap
RECURSIVE Replace(_, _, _)
Replace(t, old, new) ==
    LET hits == {j \in 1..(Len(t) - Len(old) + 1) :
                    SubSeq(t, j, j + Len(old) - 1) = old}
    IN  IF hits = {} THEN t
        ELSE LET j == Min(hits)
             IN  SubSeq(t, 1, j - 1) \o new
                   \o Replace(SubSeq(t, j + Len(old), Len(t)), old, new)

\* lines 128-133, in the order of the source
DecodeEntities(t) ==
    LET t1 == Replace(t, <<"&", "a", "m", "p", ";">>, <<"&">>)
        t2 == Replace(t1, <<"&", "n", "b", "s", "p", ";">>, <<" ">>)
        t3 == Replace(t2, <<"&", "q", "u", "o", "t", ";">>, <<"\"">>)
        t4 == Replace(t3, <<"&", "#", "8", "2", "1", "7", ";">>, <<"'">>)
        t5 == Replace(t4, <<"&", "#", "8", "2", "2", "0", ";">>, <<"\"">>)
    IN  Replace(t5, <<"&", "#", "8", "2", "2", "1", ";">>, <<"\"">>)

\* re.sub raises TypeError on a value that is not a str (line 122)
CleanTextRaises(v) == Truthy(v) /\ ~IsStr(v)

CleanText(v) ==
    IF ~Truthy(v) THEN Empty
    ELSE Str(DecodeEntities(Strip(CollapseWs(v.str))))

(***************************************************************************)
(* parse_date, src/scraper/utils/parsing.py lines 11-29.  dateutil is a    *)
(* library outside the repository: its fuzzy parser is the table below,    *)
(* which fails (<<>>) on every other text.                                 *)
(***************************************************************************)
Date1 == <<"2", "0", "2", "5", "-", "0", "2", "-", "2", "1">>

Date1Long == <<"F", "e", "b", " ", "2", "1", ",", " ", "2", "0", "2", "5">>

Date2 == <<"2", "0", "2", "5", "-", "0", "3", "-", "2", "9">>

Date2Long == <<"M", "a", "r", " ", "2", "9", ",", " ", "2", "0", "2", "5">>

Date1Short == <<"F", "e", "b", " ", "2", "1">>

Date2Short == <<"M", "a", "r", " ", "2", "9">>

DigitChars == <<"0", "1", "2", "3", "4", "5", "6", "7", "8", "9">>

\* the four digits of a year, as isoformat() writes them
YearText(y) ==
    <<DigitChars[((y \div 1000) % 10) + 1],
      DigitChars[((y \div 100) % 10) + 1],
      DigitChars[((y \div 10) % 10) + 1],
      DigitChars[(y % 10) + 1]>>

\* a text without a year gets the year of datetime.now()
DateutilParse(t) ==
    IF t \in {Date1, Date1Long} THEN Date1
    ELSE IF t \in {Date2, Date2Long} THEN Date2
    ELSE IF t = Date1Short THEN YearText(today) \o SubSeq(Date1, 5, 10)
    ELSE IF t = Date2Short THEN YearText(today) \o SubSeq(Date2, 5, 10)
    ELSE <<>>

ParseDate(v) ==
    IF ~Truthy(v) THEN None
    ELSE IF ~IsStr(v) THEN None
    ELSE IF DateutilParse(v.str) = <<>> THEN None
    ELSE Str(DateutilParse(v.str))

(***************************************************************************)
(* normalize_url, src/scraper/utils/parsing.py lines 175-200               *)
(***************************************************************************)
\* url.startswith raises AttributeError on a value that is not a str
NormalizeUrlRaises(v) == Truthy(v) /\ ~IsStr(v)

\* a bug: a URL that is not absolute is returned as it is
NormalizeUrlMut(v, base_url) == IF ~Truthy(v) THEN Empty ELSE v

NormalizeUrl(v, base_url) ==
    IF ~Truthy(v) THEN Empty
    ELSE IF StartsWith(v.str, <<"h", "t", "t", "p", ":", "/", "/">>) \/ StartsWith(v.str, <<"h", "t", "t", "p", "s", ":", "/", "/">>)
         THEN v
    ELSE IF StartsWith(v.str, <<"/", "/">>)
         THEN Str(<<"h", "t", "t", "p", "s", ":">> \o v.str)
    ELSE Str(RStripOf(base_url, {"/"}) \o <<"/">> \o LStripOf(v.str, {"/"}))

(***************************************************************************)
(* extract_price_range, src/scraper/utils/parsing.py lines 69-105.  In     *)
(* each pattern the greedy choices are the only ones that can match, so a  *)
(* match at a position is computed left to right.                          *)
(***************************************************************************)
Digits == {"0", "1", "2", "3", "4", "5", "6", "7", "8", "9"}

\* U+2013, the en dash of [-\u2013]
EnDash == "en-dash"

RECURSIVE DigitsEnd(_, _)
DigitsEnd(t, p) ==
    IF p < Len(t) /\ At(t, p) \in Digits THEN DigitsEnd(t, p + 1) ELSE p

\* end of \d+(?:\.\d{2})? at p, or -1
NumEnd(t, p) ==
    LET e == DigitsEnd(t, p)
    IN  IF e = p THEN -1
        ELSE IF e + 2 < Len(t) /\ At(t, e) = "." /\ At(t, e + 1) \in Digits
                /\ At(t, e + 2) \in Digits
             THEN e + 3
             ELSE e

\* \$\s*(num)\s*[-\u2013]\s*\$?\s*(num) at p: <<group 1, group 2>> or <<>>
RangeAt(t, p) ==
    IF ~(p < Len(t) /\ At(t, p) = "$") THEN <<>>
    ELSE LET a1 == SkipWs(t, p + 1)
             e1 == NumEnd(t, a1)
         IN  IF e1 = -1 THEN <<>>
             ELSE LET q == SkipWs(t, e1)
                  IN  IF ~(q < Len(t) /\ At(t, q) \in {"-", EnDash}) THEN <<>>
                      ELSE LET r  == SkipWs(t, q + 1)
                               r2 == IF r < Len(t) /\ At(t, r) = "$"
                                     THEN r + 1 ELSE r
                               a2 == SkipWs(t, r2)
                               e2 == NumEnd(t, a2)
                           IN  IF e2 = -1 THEN <<>>
                               ELSE <<Slice(t, a1, e1), Slice(t, a2, e2)>>

\* \$\s*(num) at p: <<group 1>> or <<>>
SingleAt(t, p) ==
    IF ~(p < Len(t) /\ At(t, p) = "$") THEN <<>>
    ELSE LET a == SkipWs(t, p + 1)
             e == NumEnd(t, a)
         IN  IF e = -1 THEN <<>> ELSE <<Slice(t, a, e)>>

\* (?:starting\s+at|from)\s*\$\s*(num) at p, ignoring case
StartingAt(t, p) ==
    LET low  == Lower(t)
        rest == Slice(low, p, Len(t))
        w == IF StartsWith(rest, <<"s", "t", "a", "r", "t", "i", "n", "g">>)
                  /\ SkipWs(t, p + 8) > p + 8
                  /\ StartsWith(Slice(low, SkipWs(t, p + 8), Len(t)), <<"a", "t">>)
             THEN SkipWs(t, p + 8) + 2
             ELSE IF StartsWith(rest, <<"f", "r", "o", "m">>) THEN p + 4
             ELSE -1
    IN  IF w = -1 THEN <<>> ELSE SingleAt(t, SkipWs(t, w))

\* re.search: the match at the leftmost position
FirstMatch(t, M(_, _)) ==
    LET ps == {p \in 0..Len(t) : M(t, p) # <<>>}
    IN  IF ps = {} THEN <<>> ELSE M(t, Min(ps))

\* a bug: the pattern for a single price is tried first
ExtractPriceRangeMut(t) ==
    IF t = <<>> THEN None
    ELSE LET rm == FirstMatch(t, RangeAt)
             sm == FirstMatch(t, StartingAt)
             om == FirstMatch(t, SingleAt)
         IN  IF om # <<>> THEN Str(<<"$">> \o om[1])
             ELSE IF rm # <<>> THEN Str(<<"$">> \o rm[1] \o <<"-", "$">> \o rm[2])
             ELSE IF sm # <<>> THEN Str(<<"$">> \o sm[1] \o <<"+">>)
             ELSE None

ExtractPriceRange(t) ==
    IF t = <<>> THEN None
    ELSE LET rm == FirstMatch(t, RangeAt)
             sm == FirstMatch(t, StartingAt)
             om == FirstMatch(t, SingleAt)
         IN  IF rm # <<>> THEN Str(<<"$">> \o rm[1] \o <<"-", "$">> \o rm[2])
             ELSE IF sm # <<>> THEN Str(<<"$">> \o sm[1] \o <<"+">>)
             ELSE IF om # <<>> THEN Str(<<"$">> \o om[1])
             ELSE None

(***************************************************************************)
(* Show, src/scraper/base/data_schema.py lines 32-89                       *)
(***************************************************************************)
\* the ValueError __post_init__ raises, lines 80-85, or None
\* a bug: a title or name of white space only is let through
ShowExceptionMut(theater_name, show_title) ==
    IF ~Truthy(show_title)
    THEN Exc("ValueError", "show_title cannot be empty")
    ELSE IF ~Truthy(theater_name)
    THEN Exc("ValueError", "theater_name cannot be empty")
    ELSE None

ShowException(theater_name, show_title) ==
    IF ~Truthy(show_title)
    THEN Exc("ValueError", "show_title cannot be empty")
    ELSE IF ~IsStr(show_title)
    THEN Exc("AttributeError", "object has no attribute 'strip'")
    ELSE IF Strip(show_title.str) = <<>>
    THEN Exc("ValueError", "show_title cannot be empty")
    ELSE IF ~Truthy(theater_name)
    THEN Exc("ValueError", "theater_name cannot be empty")
    ELSE IF ~IsStr(theater_name)
    THEN Exc("AttributeError", "object has no attribute 'strip'")
    ELSE IF Strip(theater_name.str) = <<>>
    THEN Exc("ValueError", "theater_name cannot be empty")
    ELSE None

ShowRaises(theater_name, show_title) ==
    ~IsNone(ShowException(theater_name, show_title))

\* ShowDates(start, end, schedule), lines 21-26
ShowDates(start, end, schedule) ==
    [start |-> start, end |-> end, schedule |-> schedule]

(***************************************************************************)
(* WordPressSpektrixScraper._parse_spektrix_event,                         *)
(* src/scraper/platforms/wordpress_spektrix.py lines 44-166                *)
(***************************************************************************)
DescMax == 500

DescKeep == 497

\* line 56
RawTitle(d) == Get(d, "title", Get(d, "name", Empty))

\* lines 68-73
StartDate(d) ==
    IF "start" \in DOMAIN d THEN ParseDate(d["start"])
    ELSE IF "start_date" \in DOMAIN d THEN ParseDate(d["start_date"])
    ELSE IF "firstPerformance" \in DOMAIN d THEN ParseDate(d["firstPerformance"])
    ELSE None

\* lines 75-80
EndDate(d) ==
    IF "end" \in DOMAIN d THEN ParseDate(d["end"])
    ELSE IF "end_date" \in DOMAIN d THEN ParseDate(d["end_date"])
    ELSE IF "lastPerformance" \in DOMAIN d THEN ParseDate(d["lastPerformance"])
    ELSE None

\* line 83
RawDescription(d) == Get(d, "description", Get(d, "synopsis", Empty))

\* a bug: the ellipsis is added to the first DescMax characters
DescriptionMut(d) ==
    LET raw == RawDescription(d)
        c == CleanText(raw)
    IN  IF ~Truthy(raw) THEN raw
        ELSE IF Len(c.str) > DescMax
             THEN Str(SubSeq(c.str, 1, DescMax) \o <<".", ".", ".">>)
             ELSE c

\* lines 84-88
Description(d) ==
    LET raw == RawDescription(d)
        c == CleanText(raw)
    IN  IF ~Truthy(raw) THEN raw
        ELSE IF Len(c.str) > DescMax
             THEN Str(SubSeq(c.str, 1, DescKeep) \o <<".", ".", ".">>)
             ELSE c

\* line 91
RawUrl(d) == Get(d, "url", Get(d, "link", Empty))

\* line 96
InstanceId(d) == Get(d, "instance_id", Get(d, "instanceId", Empty))

\* lines 92-98
TicketUrl(d, base_url) ==
    LET raw == RawUrl(d)
        u == IF Truthy(raw) THEN NormalizeUrl(raw, base_url) ELSE raw
    IN  IF Truthy(InstanceId(d)) /\ ~Truthy(u)
        THEN Str(base_url \o <<"/", "p", "e", "r", "f", "o", "r", "m", "a", "n", "c", "e", "s", "/", "?", "i", "n", "s", "t", "a", "n", "c", "e", "I", "d", "=">> \o PyStr(InstanceId(d)))
        ELSE u

\* line 101
RawVenue(d) == Get(d, "venue", Get(d, "location", Empty))

\* line 106
RawImage(d) == Get(d, "image", Get(d, "imageUrl", Empty))

\* line 111
RawPlaywright(d) == Get(d, "playwright", Get(d, "writer", Empty))

\* line 115
RawDirector(d) == Get(d, "director", Empty)

\* lines 102-103, 112-113, 116-117: cleaned when truthy
Cleaned(raw) == IF Truthy(raw) THEN CleanText(raw) ELSE raw

\* lines 107-108
ImageUrl(d, base_url) ==
    IF Truthy(RawImage(d)) THEN NormalizeUrl(RawImage(d), base_url)
    ELSE RawImage(d)

\* lines 120-124
PriceRange(d) ==
    IF "price" \in DOMAIN d THEN ExtractPriceRange(PyStr(d["price"]))
    ELSE IF "pricing" \in DOMAIN d THEN ExtractPriceRange(PyStr(d["pricing"]))
    ELSE None

\* lines 127-133
StatusFromText(d) ==
    IF "status" \in DOMAIN d
    THEN LET status_str == Lower(d["status"].str)
         IN  IF Contains(status_str, <<"c", "a", "n", "c", "e", "l">>) THEN "canceled"
             ELSE IF Contains(status_str, <<"c", "l", "o", "s", "e", "d">>)
                     \/ Contains(status_str, <<"p", "a", "s", "t">>) THEN "closed"
             ELSE "upcoming"
    ELSE "upcoming"

\* a bug: the class tag is not looked at
StatusMut(d) == StatusFromText(d)

\* lines 136-139
Status(d) ==
    IF "className" \in DOMAIN d
       /\ LET class_name == Lower(d["className"].str)
          IN  Contains(class_name, <<"m", "a", "i", "n", "-", "s", "t", "a", "g", "e">>) \/ Contains(class_name, <<"p", "e", "r", "f", "s">>)
    THEN "running"
    ELSE StatusFromText(d)

\* the exception raised inside the try of line 54, in the order of the
\* statements that raise it, or None
ParseException(d, theater_name, base_url) ==
    IF ~IsDict(d)
    THEN Exc("AttributeError", "object has no attribute 'get'")
    ELSE IF ~Truthy(RawTitle(d)) THEN None
    ELSE IF CleanTextRaises(RawTitle(d)) \/ CleanTextRaises(RawDescription(d))
    THEN Exc("TypeError", "expected string or bytes-like object")
    ELSE IF NormalizeUrlRaises(RawUrl(d))
    THEN Exc("AttributeError", "object has no attribute 'startswith'")
    ELSE IF CleanTextRaises(RawVenue(d))
    THEN Exc("TypeError", "expected string or bytes-like object")
    ELSE IF NormalizeUrlRaises(RawImage(d))
    THEN Exc("AttributeError", "object has no attribute 'startswith'")
    ELSE IF CleanTextRaises(RawPlaywright(d))
              \/ CleanTextRaises(RawDirector(d))
    THEN Exc("TypeError", "expected string or bytes-like object")
    ELSE IF \/ ("status" \in DOMAIN d /\ ~IsStr(d["status"]))
            \/ ("className" \in DOMAIN d /\ ~IsStr(d["className"]))
    THEN Exc("AttributeError", "object has no attribute 'lower'")
    ELSE ShowException(theater_name, CleanText(RawTitle(d)))

\* the except clause of line 164 is entered
ParseRaises(d, theater_name, base_url) ==
    ~IsNone(ParseException(d, theater_name, base_url))

\* datetime.utcnow().isoformat(): one reading of the clock stands for all
UtcNow == Str(<<"2025-01-01T00:00:00">>)

\* the defaults of the fields of Show, data_schema.py lines 41-59
ShowDefaults ==
    [playwright |-> None, director |-> None, dates |-> None, venue |-> None,
     description |-> None, ticket_url |-> None, price_range |-> None,
     genres |-> <<>>, cast |-> <<>>, runtime |-> None, image_url |-> None,
     status |-> "upcoming", scraped_at |-> UtcNow, scraper_version |-> "1.0",
     scraper_type |-> None]

\* Show(**given), data_schema.py lines 32-59
MakeShow(given) == given @@ ShowDefaults

\* the Show of lines 142-160
BuildShow(d, theater_name, base_url) ==
    MakeShow(
    [theater_name |-> theater_name,
     theater_url  |-> Str(base_url),
     show_title   |-> CleanText(RawTitle(d)),
     playwright   |-> OrNone(Cleaned(RawPlaywright(d))),
     director     |-> OrNone(Cleaned(RawDirector(d))),
     dates        |-> IF Truthy(StartDate(d)) \/ Truthy(EndDate(d))
                      THEN ShowDates(StartDate(d), EndDate(d), None)
                      ELSE None,
     venue        |-> OrNone(Cleaned(RawVenue(d))),
     description  |-> OrNone(Description(d)),
     ticket_url   |-> OrNone(TicketUrl(d, base_url)),
     price_range  |-> PriceRange(d),
     image_url    |-> OrNone(ImageUrl(d, base_url)),
     status       |-> Status(d),
     scraper_type |-> Str(<<"wordpress_spektrix">>)])

\* a Show, or None (lines 58, 166)
ParseSpektrixEvent(d, theater_name, base_url) ==
    IF ParseRaises(d, theater_name, base_url) THEN None
    ELSE IF ~Truthy(RawTitle(d)) THEN None
    ELSE BuildShow(d, theater_name, base_url)

(***************************************************************************)
(* Records handed to _parse_spektrix_event                                 *)
(***************************************************************************)
TheaterName == Str(<<"N", "Y", "T", "W">>)

BaseUrl == <<"h", "t", "t", "p", "s", ":", "/", "/", "t", ".", "o", "r", "g">>

\* a key that the record does not hold
Absent == [absent |-> TRUE]

\* the dict {k: v}, or {} when the record does not hold k
Entry(k, v) == IF v = Absent THEN <<>> ELSE k :> v

Hamlet == Str(<<"H", "a", "m", "l", "e", "t">>)

Othello == Str(<<"O", "t", "h", "e", "l", "l", "o">>)

TitleValues == {Absent, Empty, Hamlet, Str(<<"&", "n", "b", "s", "p", ";">>), Num(5), None}

NameValues == {Absent, Empty, Othello}

StartValues == {Absent, Empty, Str(Date1), Str(<<"T", "B", "A">>)}

StartDateValues == {Absent, Str(Date2Long)}

UrlValues == {Absent, Empty, Str(<<"/", "s", "h", "o", "w", "s", "/", "1">>)}

LinkValues == {Absent, Str(<<"h", "t", "t", "p", "s", ":", "/", "/", "x", ".", "o", "r", "g", "/", "s">>)}

PriceValues == {Absent, Empty, Str(<<"$", "2", "0", "-", "$", "6", "5">>), Num(5)}

PricingValues == {Absent, Str(<<"F", "r", "o", "m", " ", "$", "5">>)}

StatusValues == {Absent, Str(<<"C", "a", "n", "c", "e", "l", "l", "e", "d">>)}

EventRecords ==
    {Entry("title", t) @@ Entry("name", n) @@ Entry("start", st)
       @@ Entry("start_date", sd) @@ Entry("url", u) @@ Entry("link", l)
       @@ Entry("price", pr) @@ Entry("pricing", pg) @@ Entry("status", sv) :
        t \in TitleValues, n \in NameValues, st \in StartValues,
        sd \in StartDateValues, u \in UrlValues, l \in LinkValues,
        pr \in PriceValues, pg \in PricingValues, sv \in StatusValues}

\* records that differ in the status text and the class tag only
StatusTexts ==
    {Absent, Str(<<"C", "A", "N", "C", "E", "L", "L", "E", "D">>), Str(<<"C", "l", "o", "s", "e", "d">>), Str(<<"p", "a", "s", "t", ",", " ", "c", "a", "n", "c", "e", "l", "e", "d">>), Str(<<"P", "a", "s", "t", " ", "s", "e", "a", "s", "o", "n">>), Str(<<"O", "n", " ", "s", "a", "l", "e">>), Num(1)}

ClassTags == {Absent, Str(<<"e", "v", "e", "n", "t", " ", "M", "a", "i", "n", "-", "S", "t", "a", "g", "e">>), Str(<<"p", "e", "r", "f", "s">>), Str(<<"s", "t", "u", "d", "i", "o">>)}

StatusRecords ==
    {Entry("title", Hamlet) @@ Entry("status", sv) @@ Entry("className", cn) :
        sv \in StatusTexts, cn \in ClassTags}

\* records that differ in the URL, the image and the instance id only
PageUrls ==
    {Absent, Empty, Str(<<"/", "s", "h", "o", "w", "s", "/", "1">>), Str(<<"s", "h", "o", "w", "s", "/", "1">>), Str(<<"/", "/", "c", "d", "n", ".", "t", ".", "o", "r", "g", "/", "s">>),
     Str(<<"h", "t", "t", "p", ":", "/", "/", "x", ".", "o", "r", "g", "/", "s">>), Str(<<"h", "t", "t", "p", "s", ":", "/", "/", "x", ".", "o", "r", "g", "/", "s">>), Str(<<"H", "T", "T", "P", "S", ":", "/", "/", "x", ".", "o", "r", "g", "/", "s">>),
     Str(<<"f", "t", "p", ":", "/", "/", "x", ".", "o", "r", "g", "/", "s">>), Str(<<" ", "/", "s">>), Num(5), Num(0)}

PageLinks == {Absent, Str(<<"?", "s", "h", "o", "w", "=", "1">>)}

ImageUrls ==
    {Absent, Empty, Str(<<"/", "i", ".", "p", "n", "g">>), Str(<<"/", "/", "c", "d", "n", ".", "t", ".", "o", "r", "g", "/", "i", ".", "p", "n", "g">>),
     Str(<<"h", "t", "t", "p", "s", ":", "/", "/", "x", ".", "o", "r", "g", "/", "i", ".", "p", "n", "g">>), Num(5)}

ImageUrlAlts == {Absent, Str(<<"i", "m", "g", "/", "i", ".", "p", "n", "g">>)}

InstanceIds == {Absent, Empty, Str(<<"4", "2">>), Num(42)}

InstanceIdAlts == {Absent, Str(<<"7">>)}

UrlRecords ==
    {Entry("title", Hamlet) @@ Entry("url", u) @@ Entry("link", l)
       @@ Entry("image", im) @@ Entry("imageUrl", iu)
       @@ Entry("instance_id", id) @@ Entry("instanceId", ia) :
        u \in PageUrls, l \in PageLinks, im \in ImageUrls,
        iu \in ImageUrlAlts, id \in InstanceIds, ia \in InstanceIdAlts}

\* an element of the list that is a str, not a dict
NotARecord == Str(<<"H", "a", "m", "l", "e", "t">>)

InitParse ==
    /\ pc = "parse"
    /\ event_data \in EventRecords \cup StatusRecords \cup UrlRecords
                      \cup {NotARecord}
    /\ show = None
    /\ NoScan
    /\ NoSession
    /\ NoCall
    /\ NoFetch

\* one call of _parse_spektrix_event, lines 44-166
ParseEvent ==
    /\ pc = "parse"
    /\ show' = ParseSpektrixEvent(event_data, TheaterName, BaseUrl)
    /\ pc' = "parsed"
    /\ UNCHANGED <<event_data, scanVars, sessionVars>>
    /\ UNCHANGED <<callVars, fetchVars>>

NextParse == ParseEvent

SpecParse == InitParse /\ [][NextParse]_vars

(***************************************************************************)
(* Results, exceptions and log records                                     *)
(***************************************************************************)
\* ScraperResult, src/scraper/base/data_schema.py lines 92-100
ScraperResult(success, sh, error, warnings) ==
    [theater_name |-> TheaterName, success |-> success, shows |-> sh,
     error |-> error, warnings |-> warnings, scraped_at |-> UtcNow]

\* the classes derived from Exception that the inputs raise
ExceptionClasses ==
    {"TypeError", "AttributeError", "ValueError", "JSONDecodeError",
     "RecursionError", "RuntimeError", "TimeoutError"}

\* one call of self.logger.<level>(msg)
LogRecord(level, msg) == [level |-> level, msg |-> msg]

\* one entry of the history of invoked sources: the number of records the
\* source gave and the shows made of them
Attempt(source, failure, records, got) ==
    [source |-> source, failure |-> failure, records |-> records,
     got |-> got]

(***************************************************************************)
(* WordPressSpektrixScraper._scrape_from_api, lines 168-226                *)
(***************************************************************************)
\* lines 178-182, the part after self.api_endpoint
Endpoints == <<"/events", "/performances", "/calendar">>

EvHamlet == [title |-> Hamlet, start |-> Str(Date1)]

EvOthello == [name |-> Othello]

EvUntitled == [venue |-> Str(<<"M", "a", "i", "n">>)]

EventLists ==
    {<<>>, <<EvHamlet>>, <<EvUntitled, NotARecord>>, <<EvUntitled, EvOthello>>}

\* the values response.json() gives
JsonBodies ==
    {List(l) : l \in EventLists}
      \cup {"events" :> List(<<EvOthello>>),
            ("events" :> List(<<>>)) @@ ("data" :> List(<<EvHamlet>>)),
            "events" :> Num(5),
            Num(7)}

\* what self.fetch_page(endpoint) and response.json() do
ApiFetches ==
    {[kind |-> "raises", exc |-> Exc("RuntimeError", "fetch failed")],
     [kind |-> "none"],
     [kind |-> "response", status_code |-> 204, body |-> None],
     [kind |-> "response", status_code |-> 200, body |-> None]}
      \cup {[kind |-> "response", status_code |-> 200, body |-> b] :
               b \in JsonBodies}

\* lines 194-205
EventsOf(data) ==
    IF IsList(data) THEN data
    ELSE IF IsDict(data)
         THEN IF Truthy(Get(data, "events", List(<<>>)))
              THEN Get(data, "events", List(<<>>))
              ELSE IF Truthy(Get(data, "performances", List(<<>>)))
                   THEN Get(data, "performances", List(<<>>))
                   ELSE IF Truthy(Get(data, "data", List(<<>>)))
                        THEN Get(data, "data", List(<<>>))
                        ELSE List(<<>>)
         ELSE List(<<>>)

\* len(events) raises TypeError on a number (line 207)
LenRaises(events) == IsNum(events)

\* the items `for event_data in events` visits: a str gives its characters
Items(events) ==
    IF IsList(events) THEN events.list
    ELSE [j \in 1..Len(events.str) |-> Str(<<events.str[j]>>)]

\* a bug: the first record that gives no Show ends the loop
RECURSIVE ParsedShowsMut(_)
ParsedShowsMut(xs) ==
    IF xs = <<>> THEN <<>>
    ELSE LET sh == ParseSpektrixEvent(Head(xs), TheaterName, BaseUrl)
         IN  IF sh = None THEN <<>> ELSE <<sh>> \o ParsedShowsMut(Tail(xs))

\* lines 209-212 and 327-330: the shows appended for a list of records
RECURSIVE ParsedShows(_)
ParsedShows(xs) ==
    IF xs = <<>> THEN <<>>
    ELSE LET sh == ParseSpektrixEvent(Head(xs), TheaterName, BaseUrl)
         IN  (IF sh = None THEN <<>> ELSE <<sh>>) \o ParsedShows(Tail(xs))

\* line 165: the warnings logged for a list of records
RECURSIVE ParseWarnings(_)
ParseWarnings(xs) ==
    IF xs = <<>> THEN <<>>
    ELSE LET e == ParseException(Head(xs), TheaterName, BaseUrl)
         IN  (IF IsNone(e) THEN <<>>
              ELSE <<LogRecord("warning",
                         <<"Error parsing Spektrix event: ">> \o e.msg.str)>>)
               \o ParseWarnings(Tail(xs))

\* except json.JSONDecodeError, lines 218 and 335
CatchesJsonError(exc) == exc.type = "JSONDecodeError"

\* a bug: the handler catches invalid JSON only
CatchesExceptionMut(exc) == exc.type = "JSONDecodeError"

\* except Exception, lines 222, 338 and 342 (and squarespace.py line 211,
\* ovationtix.py line 199)
CatchesException(exc) == exc.type \in ExceptionClasses

\* a bug: a source stops the chain only when it gave more than one show
YieldedManyMut(sh) == Len(sh) > 1

\* a bug: the chain goes on after a source gave shows
YieldedMut(sh) == FALSE

\* `if shows: return shows`, lines 215 and 332
Yielded(sh) == sh # <<>>

\* one endpoint: the exception raised inside the try of line 185 (None if
\* none is; inner if it is raised inside the try of line 190), the shows
\* parsed and the records logged
ApiAttempt(endpoint, fetch) ==
    LET trying == LogRecord("info", <<"Trying API endpoint: ", endpoint>>)
    IN  IF fetch.kind = "raises"
        THEN [exc |-> fetch.exc, inner |-> FALSE, records |-> 0, got |-> <<>>,
              failure |-> "exception", logs |-> <<trying>>]
        ELSE IF fetch.kind = "none"
        THEN [exc |-> None, inner |-> FALSE, records |-> 0, got |-> <<>>,
              failure |-> "no response", logs |-> <<trying>>]
        ELSE IF fetch.status_code # 200
        THEN [exc |-> None, inner |-> FALSE, records |-> 0, got |-> <<>>,
              failure |-> "status", logs |-> <<trying>>]
        ELSE IF IsNone(fetch.body)
        THEN [exc |-> Exc("JSONDecodeError", "Expecting value"),
              inner |-> TRUE, records |-> 0, got |-> <<>>, failure |-> "invalid json",
              logs |-> <<trying>>]
        ELSE LET events == EventsOf(fetch.body)
             IN  IF LenRaises(events)
                 THEN [exc |-> Exc("TypeError", "object has no len()"),
                       inner |-> TRUE, records |-> 0, got |-> <<>>, failure |-> "exception",
                       logs |-> <<trying>>]
                 ELSE [exc |-> None, inner |-> TRUE,
                       records |-> Len(Items(events)),
                       got |-> ParsedShows(Items(events)), failure |-> "",
                       logs |-> <<trying,
                                  LogRecord("info",
                                      <<"Found ",
                                        ToString(Len(Items(events))),
                                        " events from API">>)>>
                                 \o ParseWarnings(Items(events))]

\* the records the except clauses of lines 218-224 log
ApiHandlerLog(endpoint, exc, inner) ==
    IF IsNone(exc) THEN <<>>
    ELSE IF inner /\ CatchesJsonError(exc)
         THEN <<LogRecord("warning", <<"Invalid JSON from ", endpoint>>)>>
         ELSE <<LogRecord("debug",
                    <<"Error with endpoint ", endpoint, ": ">> \o exc.msg.str)>>

(***************************************************************************)
(* WordPressSpektrixScraper._scrape_from_page, lines 228-345               *)
(***************************************************************************)
\* line 311
Keywords == <<"var events", "const events", "let events">>

\* what self.fetch_page(self.base_url) and BeautifulSoup do, lines 238-242
PageFetches ==
    {[kind |-> "raises", exc |-> Exc("RuntimeError", "fetch failed")],
     [kind |-> "none"],
     [kind |-> "response"]}

\* what extract_js_array and json.loads give for one keyword, lines 312-323:
\* no array, an array that is not JSON after the cleanup, an array nested
\* too deep for json.loads, or a list of records
AnchorFinds ==
    {[kind |-> "no array"],
     [kind |-> "raises", exc |-> Exc("JSONDecodeError", "Expecting value")],
     [kind |-> "raises",
      exc |-> Exc("RecursionError", "maximum recursion depth exceeded")]}
      \cup {[kind |-> "json", data |-> List(l)] : l \in EventLists}

\* one keyword: the exception raised inside the try of line 314, the shows
\* parsed and the records logged
AnchorAttempt(var_keyword, find) ==
    IF find.kind = "no array"
    THEN [exc |-> None, records |-> 0, got |-> <<>>, failure |-> "no array", logs |-> <<>>]
    ELSE IF find.kind = "raises"
    THEN [exc |-> find.exc, records |-> 0, got |-> <<>>,
          failure |-> IF CatchesJsonError(find.exc) THEN "invalid json"
                      ELSE "exception",
          logs |-> <<>>]
    ELSE [exc |-> None, records |-> Len(Items(find.data)),
          got |-> ParsedShows(Items(find.data)),
          failure |-> "",
          logs |-> <<LogRecord("info",
                         <<"Found ", ToString(Len(Items(find.data))),
                           " events in page using '", var_keyword, "'">>)>>
                      \o ParseWarnings(Items(find.data))]

\* the records the except clauses of lines 335-340 log
AnchorHandlerLog(var_keyword, exc) ==
    IF IsNone(exc) THEN <<>>
    ELSE IF CatchesJsonError(exc)
         THEN <<LogRecord("debug",
                    <<"Could not parse embedded JSON: ">> \o exc.msg.str)>>
         ELSE <<LogRecord("debug",
                    <<"Error extracting with '", var_keyword, "': ">>
                        \o exc.msg.str)>>

(***************************************************************************)
(* WordPressSpektrixScraper.scrape, lines 347-377, one action per source   *)
(***************************************************************************)
Platforms == {"wordpress_spektrix", "squarespace", "ovationtix"}

\* lines 354-358, and line 175
StartScrape ==
    /\ pc = "scrape"
    /\ platform = "wordpress_spektrix"
    /\ log' = Append(log, LogRecord("info",
                              <<"Attempting to scrape from API...">>))
    /\ shows' = <<>>
    /\ ep' = 1
    /\ pc' = "api"
    /\ UNCHANGED <<kw, attempted, sres, raised, rres, platform, scanVars,
                   parseVars>>
    /\ UNCHANGED <<callVars, fetchVars>>

\* one iteration of the loop of line 184
TryEndpoint ==
    /\ pc = "api"
    /\ \E fetch \in ApiFetches :
       \E endpoint \in {Endpoints[ep]} :
       \E a \in {ApiAttempt(endpoint, fetch)} :
       \E now \in {shows \o a.got} :
         LET handled == IsNone(a.exc)
                          \/ (a.inner /\ CatchesJsonError(a.exc))
                          \/ CatchesException(a.exc)
         IN  /\ attempted' = Append(attempted,
                                 Attempt(endpoint, a.failure, a.records,
                                         a.got))
             /\ shows' = now
             /\ IF ~handled
                THEN /\ raised' = a.exc
                     /\ log' = log \o a.logs
                     /\ pc' = "done"
                     /\ UNCHANGED ep
                ELSE /\ log' = log \o a.logs
                            \o ApiHandlerLog(endpoint, a.exc, a.inner)
                     /\ UNCHANGED raised
                     /\ IF IsNone(a.exc) /\ a.inner /\ Yielded(now)
                        THEN pc' = "return" /\ UNCHANGED ep
                        ELSE IF ep < Len(Endpoints)
                             THEN pc' = "api" /\ ep' = ep + 1
                             ELSE pc' = (IF now = <<>> THEN "page"
                                         ELSE "return")
                                    /\ UNCHANGED ep
    /\ UNCHANGED <<kw, sres, rres, platform, scanVars, parseVars>>
    /\ UNCHANGED <<callVars, fetchVars>>

\* lines 361-363 and 235-242
FetchPage ==
    /\ pc = "page"
    /\ \E fetch \in PageFetches :
         LET entered == LogRecord("info",
                 <<"API scraping failed, trying page scraping...">>)
         IN  /\ shows' = <<>>
             /\ IF fetch.kind = "raises"
                THEN /\ attempted' = Append(attempted,
                                         Attempt("page", "exception", 0,
                                                 <<>>))
                     /\ IF CatchesException(fetch.exc)
                        THEN /\ log' = log \o <<entered,
                                    LogRecord("warning",
                                        <<"Error scraping from page: ">>
                                            \o fetch.exc.msg.str)>>
                             /\ pc' = "return"
                             /\ UNCHANGED raised
                        ELSE /\ log' = Append(log, entered)
                             /\ raised' = fetch.exc
                             /\ pc' = "done"
                     /\ UNCHANGED kw
                ELSE IF fetch.kind = "none"
                THEN /\ attempted' = Append(attempted,
                                         Attempt("page", "no response", 0,
                                                 <<>>))
                     /\ log' = Append(log, entered)
                     /\ pc' = "return"
                     /\ UNCHANGED <<kw, raised>>
                ELSE /\ attempted' = Append(attempted,
                                         Attempt("page", "", 0, <<>>))
                     /\ log' = Append(log, entered)
                     /\ kw' = 1
                     /\ pc' = "anchor"
                     /\ UNCHANGED raised
    /\ UNCHANGED <<ep, sres, rres, platform, scanVars, parseVars>>
    /\ UNCHANGED <<callVars, fetchVars>>

\* one iteration of the loop of line 311
TryAnchor ==
    /\ pc = "anchor"
    /\ \E find \in AnchorFinds :
       \E var_keyword \in {Keywords[kw]} :
       \E a \in {AnchorAttempt(var_keyword, find)} :
       \E now \in {shows \o a.got} :
         LET handled == IsNone(a.exc) \/ CatchesJsonError(a.exc)
                          \/ CatchesException(a.exc)
         IN  /\ attempted' = Append(attempted,
                                 Attempt(var_keyword, a.failure,
                                         a.records, a.got))
             /\ shows' = now
             /\ IF ~handled
                THEN /\ raised' = a.exc
                     /\ log' = log \o a.logs
                     /\ pc' = "done"
                     /\ UNCHANGED kw
                ELSE /\ log' = log \o a.logs
                            \o AnchorHandlerLog(var_keyword, a.exc)
                     /\ UNCHANGED raised
                     /\ IF find.kind = "json" /\ Yielded(now)
                        THEN pc' = "return" /\ UNCHANGED kw
                        ELSE IF kw < Len(Keywords)
                             THEN pc' = "anchor" /\ kw' = kw + 1
                             ELSE pc' = "return" /\ UNCHANGED kw
    /\ UNCHANGED <<ep, sres, rres, platform, scanVars, parseVars>>
    /\ UNCHANGED <<callVars, fetchVars>>

\* lines 365-377
NoShowsError == "No shows found via API or page scraping"

\* a bug: the failure result carries no warning
NoShowsWarningsMut == <<>>

NoShowsWarnings == <<Msg("Could not find any event data")>>

Return ==
    /\ pc = "return"
    /\ sres' = IF shows # <<>>
               THEN ScraperResult(TRUE, shows, None, <<>>)
               ELSE ScraperResult(FALSE, <<>>, Msg(NoShowsError),
                                  NoShowsWarnings)
    /\ pc' = "done"
    /\ UNCHANGED <<shows, ep, kw, attempted, log, raised, rres, platform,
                   scanVars, parseVars>>
    /\ UNCHANGED <<callVars, fetchVars>>

(***************************************************************************)
(* parse_date_range, src/scraper/utils/parsing.py lines 32-66              *)
(***************************************************************************)
\* line 51
Separators ==
    <<<<" ", "t", "o", " ">>, <<" ", "-", " ">>, <<" ", EnDash, " ">>,
      <<" ", "t", "h", "r", "o", "u", "g", "h", " ">>, <<EnDash>>, <<"-">>>>

\* the position of the first occurrence of sep in t (sep occurs in t)
IndexOf(t, sep) ==
    Min({p \in 0..(Len(t) - Len(sep)) : SubSeq(t, p + 1, p + Len(sep)) = sep})

\* t.split(sep, 1), stripped and parsed: lines 55-59
SplitDates(t, sep) ==
    LET at == IndexOf(t, sep)
    IN  <<ParseDate(Str(Strip(Slice(t, 0, at)))),
          ParseDate(Str(Strip(Slice(t, at + Len(sep), Len(t)))))>>

\* a bug: the separator that occurs leftmost in the text is the one used
ParseDateRangeLeftmostMut(t) ==
    IF t = <<>> THEN <<None, None>>
    ELSE LET found == {j \in 1..Len(Separators) : Contains(t, Separators[j])}
         IN  IF found # {}
             THEN SplitDates(t,
                      Separators[CHOOSE j \in found :
                          \A k \in found :
                              \/ IndexOf(t, Separators[j])
                                    < IndexOf(t, Separators[k])
                              \/ /\ IndexOf(t, Separators[j])
                                       = IndexOf(t, Separators[k])
                                 /\ j <= k])
             ELSE IF Truthy(ParseDate(Str(t)))
                  THEN <<ParseDate(Str(t)), ParseDate(Str(t))>>
                  ELSE <<None, None>>

\* a bug: a single date gives no end
ParseDateRangeMut(t) ==
    IF t = <<>> THEN <<None, None>>
    ELSE LET found == {j \in 1..Len(Separators) : Contains(t, Separators[j])}
         IN  IF found # {} THEN SplitDates(t, Separators[Min(found)])
             ELSE <<ParseDate(Str(t)), None>>

ParseDateRange(t) ==
    IF t = <<>> THEN <<None, None>>
    ELSE LET found == {j \in 1..Len(Separators) : Contains(t, Separators[j])}
         IN  IF found # {} THEN SplitDates(t, Separators[Min(found)])
             ELSE IF Truthy(ParseDate(Str(t)))
                  THEN <<ParseDate(Str(t)), ParseDate(Str(t))>>
                  ELSE <<None, None>>

(***************************************************************************)
(* SquarespaceScraper, src/scraper/platforms/squarespace.py                *)
(***************************************************************************)
\* an event container of the calendar page: the text or attribute of each
\* element _parse_event_item looks for, None where the element is missing
EventItem(title, href, datetime, time, end_datetime, address, excerpt) ==
    [title |-> title, href |-> href, datetime |-> datetime, time |-> time,
     end_datetime |-> end_datetime, address |-> address, excerpt |-> excerpt]

\* lines 107-108 (and wordpress_spektrix.py lines 87-88)
Truncated(c) ==
    IF Len(c.str) > DescMax
    THEN Str(SubSeq(c.str, 1, DescKeep) \o <<".", ".", ".">>)
    ELSE c

\* lines 111-116
Schedule(time_str, start_date, end_date) ==
    IF ~Truthy(time_str) THEN None
    ELSE IF Truthy(end_date) /\ start_date # end_date
         THEN Str(time_str.str \o <<" ", "(">> \o PyStr(start_date)
                    \o <<" ", "t", "o", " ">> \o PyStr(end_date) \o <<")">>)
         ELSE time_str

\* _parse_event_item, lines 44-138: a Show, or None
ParseEventItem(item) ==
    LET title == CleanText(item.title)
        detail_url == IF IsNone(item.href) THEN Empty
                      ELSE NormalizeUrl(item.href, BaseUrl)
        start_date == ParseDate(item.datetime)
        time_str == IF IsNone(item.time) THEN None ELSE CleanText(item.time)
        end_date == ParseDate(item.end_datetime)
        venue == IF IsNone(item.address) THEN None
                 ELSE CleanText(item.address)
        description == IF IsNone(item.excerpt) THEN None
                       ELSE Truncated(CleanText(item.excerpt))
    IN  IF IsNone(item.title) \/ ~Truthy(title) THEN None
        ELSE IF ShowRaises(TheaterName, title) THEN None
        ELSE MakeShow([theater_name |-> TheaterName,
                       theater_url |-> Str(BaseUrl),
                       show_title |-> title,
                       dates |-> IF Truthy(start_date)
                                 THEN ShowDates(start_date, end_date,
                                          Schedule(time_str, start_date,
                                                   end_date))
                                 ELSE None,
                       venue |-> venue,
                       description |-> description,
                       ticket_url |-> detail_url,
                       scraper_type |-> Msg("squarespace")])

\* line 137: the warnings logged for a list of containers
RECURSIVE ItemWarnings(_)
ItemWarnings(items) ==
    IF items = <<>> THEN <<>>
    ELSE LET title == CleanText(Head(items).title)
             e == IF IsNone(Head(items).title) \/ ~Truthy(title) THEN None
                  ELSE ShowException(TheaterName, title)
         IN  (IF IsNone(e) THEN <<>>
              ELSE <<LogRecord("warning",
                         <<"Error parsing event item: ">> \o e.msg.str)>>)
               \o ItemWarnings(Tail(items))

\* lines 167-171
RECURSIVE ItemShows(_)
ItemShows(items) ==
    IF items = <<>> THEN <<>>
    ELSE LET sh == ParseEventItem(Head(items))
         IN  (IF sh = None THEN <<>> ELSE <<sh>>) \o ItemShows(Tail(items))

ItemMacbeth ==
    EventItem(Str(<<"M", "a", "c", "b", "e", "t", "h">>), Str(<<"/", "e", "v", "e", "n", "t", "s", "/", "m", "a", "c", "b", "e", "t", "h">>), Str(Date1),
              Str(<<"7", ":", "3", "0", " ", "P", "M">>), Str(Date2), None, Str(<<"A", " ", " ", "t", "r", "a", "g", "e", "d", "y", ".">>))

ItemBare == EventItem(Str(<<"L", "e", "a", "r">>), None, None, None, None, None, None)

ItemUntitled == EventItem(None, None, Str(Date1), None, None, None, None)

ItemBlank == EventItem(Str(<<"&", "n", "b", "s", "p", ";">>), None, None, None, None, None, None)

\* what self.fetch_page(self.calendar_url) and the page give
CalendarFetches ==
    {[kind |-> "raises", exc |-> Exc("RuntimeError", "fetch failed")],
     [kind |-> "none"]}
      \cup {[kind |-> "response", items |-> its] :
               its \in {<<>>, <<ItemUntitled>>, <<ItemBlank>>, <<ItemBare>>,
                        <<ItemMacbeth, ItemUntitled, ItemBare>>}}

CalendarUrl == BaseUrl \o <<"/", "c", "a", "l", "e", "n", "d", "a", "r">>

\* SquarespaceScraper.scrape, lines 175-217
SquarespaceScrape ==
    /\ pc = "scrape"
    /\ platform = "squarespace"
    /\ \E fetch \in CalendarFetches :
       \E parsed \in {IF fetch.kind = "response"
                      THEN ItemShows(fetch.items) ELSE <<>>} :
         LET fetching == LogRecord("info",
                             <<"Fetching calendar: ">> \o CalendarUrl)
         IN  IF fetch.kind = "raises"
             THEN IF CatchesException(fetch.exc)
                  THEN /\ sres' = ScraperResult(FALSE, <<>>, fetch.exc.msg,
                                                <<>>)
                       /\ log' = log \o <<fetching,
                               LogRecord("error",
                                   <<"Error scraping ">> \o TheaterName.str)>>
                       /\ UNCHANGED <<raised, shows>>
                  ELSE /\ raised' = fetch.exc
                       /\ log' = Append(log, fetching)
                       /\ UNCHANGED <<sres, shows>>
             ELSE IF fetch.kind = "none"
             THEN /\ sres' = ScraperResult(FALSE, <<>>,
                                 Str(<<"Failed to fetch calendar page: ">>
                                         \o CalendarUrl), <<>>)
                  /\ log' = Append(log, fetching)
                  /\ UNCHANGED <<raised, shows>>
             ELSE /\ shows' = parsed
                  /\ sres' = IF parsed # <<>>
                             THEN ScraperResult(TRUE, parsed, None, <<>>)
                             ELSE ScraperResult(FALSE, <<>>,
                                      Msg("No events found on calendar page"),
                                      <<Msg("Calendar page loaded but no events were parsed")>>)
                  /\ log' = log \o <<fetching,
                          LogRecord("info",
                              <<"Found ", ToString(Len(fetch.items)),
                                " potential event containers">>)>>
                          \o ItemWarnings(fetch.items)
                          \o [j \in 1..Len(parsed) |->
                                 LogRecord("debug", <<"Parsed: ">>
                                     \o parsed[j].show_title.str)]
                  /\ UNCHANGED raised
    /\ pc' = "done"
    /\ UNCHANGED <<ep, kw, attempted, rres, platform, scanVars, parseVars>>
    /\ UNCHANGED <<callVars, fetchVars>>

(***************************************************************************)
(* OvationTixScraper, src/scraper/platforms/ovationtix.py                  *)
(***************************************************************************)
\* a row of the calendar table: the number of its td cells, the inner text
\* of the first five, the href of the link in the title cell (None if it
\* has none) and the inner text of the row
Row(cells, dates, supertitle, title, subtitle, venue, link, row_text) ==
    [cells |-> cells, dates |-> dates, supertitle |-> supertitle,
     title |-> title, subtitle |-> subtitle, venue |-> venue, link |-> link,
     text |-> row_text]

\* clean_text(x.strip()) if x.strip() else None, lines 74-77
CleanOrNone(t) == IF Strip(t) = <<>> THEN None ELSE CleanText(Str(Strip(t)))

\* " - ".join(parts)
RECURSIVE Join(_)
Join(parts) ==
    IF Len(parts) = 1 THEN parts[1].str
    ELSE parts[1].str \o <<" ", "-", " ">> \o Join(Tail(parts))

\* line 62
MinCells == 5

OvationTixUrl == <<"h", "t", "t", "p", "s", ":", "/", "/", "w", "e", "b", ".", "o", "v", "a", "t", "i", "o", "n", "t", "i", "x", ".", "c", "o", "m">>

\* lines 75-81
FullTitle(row) ==
    LET title == CleanText(Str(Strip(row.title)))
        title_parts == SelectSeq(<<CleanOrNone(row.supertitle), title,
                                   CleanOrNone(row.subtitle)>>, Truthy)
    IN  IF Len(title_parts) > 1 THEN Str(Join(title_parts)) ELSE title

\* line 116
IsCanceled(row) ==
    Contains(Lower(row.text), <<"c", "a", "n", "c", "e", "l", "e", "d">>)

\* the Show of lines 98-110, as the constructor returns it
ConstructedShow(row) ==
    LET dates_text == CleanText(Str(Strip(row.dates)))
        range == ParseDateRange(dates_text.str)
        ticket_url == IF Truthy(row.link)
                      THEN NormalizeUrl(row.link, OvationTixUrl)
                      ELSE None
    IN  MakeShow([theater_name |-> TheaterName,
                  theater_url |-> Str(BaseUrl),
                  show_title |-> FullTitle(row),
                  dates |-> ShowDates(range[1], range[2], dates_text),
                  venue |-> CleanOrNone(row.venue),
                  ticket_url |-> ticket_url,
                  scraper_type |-> Msg("ovationtix")])

\* lines 62-63, 83-84 and 128-130: no Show is constructed
NoShowOfRow(row) ==
    \/ row.cells < MinCells
    \/ ~Truthy(FullTitle(row))
    \/ ShowRaises(TheaterName, FullTitle(row))

\* lines 118-126: show.status is assigned on the Show constructed before
WithStatus(made, row) ==
    IF IsCanceled(row) THEN [made EXCEPT !.status = "canceled"] ELSE made

\* _extract_event_from_row, lines 48-130: a Show, or None
ExtractEventFromRow(row) ==
    IF NoShowOfRow(row) THEN None
    ELSE WithStatus(ConstructedShow(row), row)

\* line 129: the warnings logged for a list of rows
RECURSIVE RowWarnings(_)
RowWarnings(rows) ==
    IF rows = <<>> THEN <<>>
    ELSE LET e == IF Head(rows).cells < MinCells
                     \/ ~Truthy(FullTitle(Head(rows))) THEN None
                  ELSE ShowException(TheaterName, FullTitle(Head(rows)))
         IN  (IF IsNone(e) THEN <<>>
              ELSE <<LogRecord("warning",
                         <<"Error extracting event from row: ">>
                             \o e.msg.str)>>)
               \o RowWarnings(Tail(rows))

\* lines 171-175
RECURSIVE RowShows(_)
RowShows(rows) ==
    IF rows = <<>> THEN <<>>
    ELSE LET sh == ExtractEventFromRow(Head(rows))
         IN  (IF sh = None THEN <<>> ELSE <<sh>>) \o RowShows(Tail(rows))

RowHamlet ==
    Row(5, Date1Long \o <<" ", "-", " ">> \o Date2Long, <<>>, <<"H", "a", "m", "l", "e", "t">>,
        <<" ", "a", " ", "r", "e", "v", "i", "v", "a", "l">>, <<"M", "a", "i", "n">>, Str(<<"/", "t", "r", "s", "/", "p", "r", "/", "1">>), <<"H", "a", "m", "l", "e", "t", " ", "M", "a", "i", "n">>)

RowCanceled ==
    Row(6, Date1Long, <<"G", "a", "l", "a">>, <<"O", "t", "h", "e", "l", "l", "o">>, <<>>, <<>>, None,
        <<"O", "t", "h", "e", "l", "l", "o", " ", "C", "A", "N", "C", "E", "L", "E", "D">>)

RowShort == Row(3, <<>>, <<>>, <<>>, <<>>, <<>>, None, <<>>)

RowUntitled == Row(5, Date1Long, <<>>, <<" ">>, <<>>, <<>>, None, <<>>)

\* what the browser does in _scrape_calendar_async, lines 141-180
CalendarLoads ==
    {[kind |-> "launch raises",
      exc |-> Exc("RuntimeError", "Executable doesn't exist")],
     [kind |-> "goto raises", exc |-> Exc("TimeoutError", "Timeout 30000ms exceeded")],
     [kind |-> "no table"]}
      \cup {[kind |-> "rows", rows |-> rs] :
               rs \in {<<>>, <<RowShort>>, <<RowUntitled>>, <<RowHamlet>>,
                       <<RowHamlet, RowShort, RowCanceled>>}}

\* OvationTixScraper.scrape, lines 182-205
OvationTixScrape ==
    /\ pc = "scrape"
    /\ platform = "ovationtix"
    /\ \E load \in CalendarLoads :
       \E parsed \in {IF load.kind = "rows"
                      THEN RowShows(load.rows) ELSE <<>>} :
         LET loading == LogRecord("info", <<"Loading calendar: ">>
                            \o <<"h", "t", "t", "p", "s", ":", "/", "/", "w", "e", "b", ".", "o", "v", "a", "t", "i", "o", "n", "t", "i", "x", ".", "c", "o", "m", "/", "t", "r", "s", "/", "c", "a", "l", "/", "1", "4">>)
         IN  IF load.kind \in {"launch raises", "goto raises"}
             THEN IF CatchesException(load.exc)
                  THEN /\ sres' = ScraperResult(FALSE, <<>>, load.exc.msg,
                                                <<>>)
                       /\ log' = log
                               \o (IF load.kind = "goto raises"
                                   THEN <<loading>> ELSE <<>>)
                               \o <<LogRecord("error",
                                   <<"Error scraping ">> \o TheaterName.str)>>
                       /\ UNCHANGED <<raised, shows>>
                  ELSE /\ raised' = load.exc
                       /\ UNCHANGED <<sres, shows, log>>
             ELSE IF load.kind = "no table"
             THEN /\ sres' = ScraperResult(TRUE, <<>>, None, <<>>)
                  /\ log' = log \o <<loading,
                          LogRecord("warning",
                              <<"Calendar table not found - might be empty or structure changed">>)>>
                  /\ UNCHANGED <<raised, shows>>
             ELSE /\ shows' = parsed
                  /\ sres' = ScraperResult(TRUE, parsed, None, <<>>)
                  /\ log' = log \o <<loading,
                          LogRecord("info",
                              <<"Found ", ToString(Len(load.rows)),
                                " potential events">>)>>
                          \o RowWarnings(load.rows)
                          \o [j \in 1..Len(parsed) |->
                                 LogRecord("debug", <<"Extracted: ">>
                                     \o parsed[j].show_title.str)]
                  /\ UNCHANGED raised
    /\ pc' = "done"
    /\ UNCHANGED <<ep, kw, attempted, rres, platform, scanVars, parseVars>>
    /\ UNCHANGED <<callVars, fetchVars>>

(***************************************************************************)
(* A scrape() session of one platform scraper                              *)
(***************************************************************************)
InitScrape ==
    /\ pc = "scrape"
    /\ platform \in Platforms
    /\ shows = <<>>
    /\ ep = 0
    /\ kw = 0
    /\ attempted = <<>>
    /\ log = <<>>
    /\ sres = None
    /\ raised = None
    /\ rres = None
    /\ NoScan
    /\ NoParse
    /\ NoCall
    /\ NoFetch

NextScrape ==
    \/ StartScrape
    \/ TryEndpoint
    \/ FetchPage
    \/ TryAnchor
    \/ Return
    \/ SquarespaceScrape
    \/ OvationTixScrape

SpecScrape == InitScrape /\ [][NextScrape]_vars

(***************************************************************************)
(* BaseScraper.validate_show and BaseScraper.run,                          *)
(* src/scraper/base/base_scraper.py lines 120-193                          *)
(***************************************************************************)
DigitValue(c) == CHOOSE n \in 0..9 : ToString(n) = c

TwoDigits(t, p) == 10 * DigitValue(At(t, p)) + DigitValue(At(t, p + 1))

\* line 132
MinTitle == 2

\* datetime.fromisoformat accepts the date text t (texts without a time)
IsIsoDate(t) ==
    /\ Len(t) = 10
    /\ At(t, 4) = "-" /\ At(t, 7) = "-"
    /\ \A p \in {0, 1, 2, 3, 5, 6, 8, 9} : At(t, p) \in Digits
    /\ TwoDigits(t, 5) \in 1..12
    /\ TwoDigits(t, 8) \in 1..31

\* the exception validate_show raises on show, or None: str methods called
\* on a value that is not a str (lines 135 and 141-147)
ValidateException(sh) ==
    IF Truthy(sh.ticket_url) /\ ~IsStr(sh.ticket_url)
    THEN Exc("AttributeError", "object has no attribute 'startswith'")
    ELSE IF ~IsNone(sh.dates)
            /\ \/ (Truthy(sh.dates.start) /\ ~IsStr(sh.dates.start))
               \/ (Truthy(sh.dates.end) /\ ~IsStr(sh.dates.end))
    THEN Exc("TypeError", "fromisoformat: argument must be str")
    ELSE None

\* lines 130-151
ValidateShow(sh) ==
    (IF ~Truthy(sh.show_title) \/ Len(Strip(sh.show_title.str)) < MinTitle
     THEN <<Str(<<"Suspiciously short show title: '">> \o sh.show_title.str
                  \o <<"'">>)>>
     ELSE <<>>)
    \o (IF Truthy(sh.ticket_url)
           /\ ~StartsWith(sh.ticket_url.str, <<"h", "t", "t", "p">>)
        THEN <<Str(<<"Invalid ticket URL: ">> \o sh.ticket_url.str)>>
        ELSE <<>>)
    \o (IF ~IsNone(sh.dates) /\ Truthy(sh.dates.start)
           /\ ~IsIsoDate(sh.dates.start.str)
        THEN <<Str(<<"Invalid start date format: ">> \o sh.dates.start.str)>>
        ELSE <<>>)
    \o (IF ~IsNone(sh.dates) /\ Truthy(sh.dates.end)
           /\ ~IsIsoDate(sh.dates.end.str)
        THEN <<Str(<<"Invalid end date format: ">> \o sh.dates.end.str)>>
        ELSE <<>>)

\* a bug: the new warnings replace the ones already present
ExtendMut(xs, ys) == ys

\* result.warnings.extend(warnings), line 177
Extend(xs, ys) == xs \o ys

\* the loop of lines 175-177: the warnings of the result after the shows in
\* sh were validated, and the exception that ended the loop (None if none)
RECURSIVE ValidateAll(_, _)
ValidateAll(sh, warnings) ==
    IF sh = <<>> THEN [warnings |-> warnings, exc |-> None]
    ELSE IF ~IsNone(ValidateException(Head(sh)))
         THEN [warnings |-> warnings, exc |-> ValidateException(Head(sh))]
         ELSE ValidateAll(Tail(sh), Extend(warnings, ValidateShow(Head(sh))))

\* a bug: run catches ValueError only
RunCatchesMut(exc) == exc.type = "ValueError"

\* except Exception, line 187
RunCatches(exc) == exc.type \in ExceptionClasses

\* shows a scrape() of some subclass may return
GoodShow ==
    MakeShow([theater_name |-> TheaterName, theater_url |-> Str(BaseUrl),
              show_title |-> Hamlet,
              ticket_url |-> Str(<<"h", "t", "t", "p", "s", ":", "/", "/", "x", ".", "o", "r", "g", "/", "s">>),
              dates |-> ShowDates(Str(Date1), Str(Date2), None)])

ShortShow ==
    MakeShow([theater_name |-> TheaterName, theater_url |-> Str(BaseUrl),
              show_title |-> Str(<<"H">>), ticket_url |-> Str(<<"/", "s">>)])

LooseDateShow ==
    MakeShow([theater_name |-> TheaterName, theater_url |-> Str(BaseUrl),
              show_title |-> Othello,
              dates |-> ShowDates(Str(Date1Long), Str(<<"2", "0", "2", "5", "-", "1", "3", "-", "0", "1">>), None)])

NumberUrlShow ==
    MakeShow([theater_name |-> TheaterName, theater_url |-> Str(BaseUrl),
              show_title |-> Othello, ticket_url |-> Num(5)])

NumberDateShow ==
    MakeShow([theater_name |-> TheaterName, theater_url |-> Str(BaseUrl),
              show_title |-> Hamlet,
              dates |-> ShowDates(None, Num(2025), None)])

ShowPool == {GoodShow, ShortShow, LooseDateShow, NumberUrlShow, NumberDateShow}

MaxShows == 2

\* what self.scrape() does: it raises, or it returns a ScraperResult
ScrapeOutcomes ==
    {[kind |-> "raises", exc |-> Exc(t, "scrape failed")] :
        t \in {"RuntimeError", "ValueError"}}
      \cup {[kind |-> "returns",
             result |-> ScraperResult(ok, sh, err, ws)] :
               ok \in BOOLEAN, sh \in SeqsUpTo(ShowPool, MaxShows),
               err \in {None, Msg("No shows found via API or page scraping")},
               ws \in {<<>>, <<Msg("Could not find any event data")>>}}

InitRun ==
    /\ pc = "run"
    /\ platform = "generic"
    /\ shows = <<>>
    /\ ep = 0
    /\ kw = 0
    /\ attempted = <<>>
    /\ log = <<>>
    /\ sres = None
    /\ raised = None
    /\ rres = None
    /\ NoScan
    /\ NoParse
    /\ NoCall
    /\ NoFetch

\* BaseScraper.run, lines 163-193; sres keeps what scrape() gave
Run ==
    /\ pc = "run"
    /\ \E out \in ScrapeOutcomes :
       \E v \in {IF out.kind = "returns"
                 THEN ValidateAll(out.result.shows, out.result.warnings)
                 ELSE [warnings |-> <<>>, exc |-> out.exc]} :
         LET starting == LogRecord("info",
                             <<"Starting scrape for ">> \o TheaterName.str)
         IN  /\ sres' = IF out.kind = "returns" THEN out.result ELSE None
             /\ IF IsNone(v.exc)
                THEN /\ rres' = [out.result EXCEPT !.warnings = v.warnings]
                     /\ log' = log \o <<starting,
                             LogRecord("info",
                                 <<"Scrape complete for ">> \o TheaterName.str
                                   \o <<": ",
                                        ToString(Len(out.result.shows)),
                                        " shows, ",
                                        ToString(Len(v.warnings)),
                                        " warnings">>)>>
                     /\ UNCHANGED raised
                ELSE IF RunCatches(v.exc)
                THEN /\ rres' = ScraperResult(FALSE, <<>>, v.exc.msg, <<>>)
                     /\ log' = log \o <<starting,
                             LogRecord("error",
                                 <<"Unexpected error scraping ">>
                                     \o TheaterName.str)>>
                     /\ UNCHANGED raised
                ELSE /\ raised' = v.exc
                     /\ log' = Append(log, starting)
                     /\ UNCHANGED rres
    /\ pc' = "ran"
    /\ UNCHANGED <<platform, shows, ep, kw, attempted, scanVars, parseVars>>
    /\ UNCHANGED <<callVars, fetchVars>>

NextRun == Run

SpecRun == InitRun /\ [][NextRun]_vars

(***************************************************************************)
(* The loop over the records of one source, wordpress_spektrix.py lines    *)
(* 209-212 and 327-330, on batches of records                              *)
(***************************************************************************)
MaxBatch == 3

EvBlank == [title |-> Str(<<"&", "n", "b", "s", "p", ";">>)]

EvNumber == [title |-> Num(5)]

EvBadUrl == [title |-> Othello, url |-> Num(5)]

BatchRecords ==
    {EvHamlet, EvOthello, EvUntitled, EvBlank, EvNumber, EvBadUrl, NotARecord}

Batches ==
    UNION {[1..n -> BatchRecords] : n \in 0..MaxBatch}

InitBatch ==
    /\ pc = "batch"
    /\ args \in {List(xs) : xs \in Batches}
    /\ ret = None
    /\ today = 0
    /\ NoScan
    /\ NoParse
    /\ NoSession
    /\ NoFetch

\* shows = []; for event_data in events: ... shows.append(show)
ParseBatch ==
    /\ pc = "batch"
    /\ ret' = List(ParsedShows(Items(args)))
    /\ pc' = "batched"
    /\ UNCHANGED <<args, today, scanVars, parseVars, sessionVars, fetchVars>>

NextBatch == ParseBatch

SpecBatch == InitBatch /\ [][NextBatch]_vars

(***************************************************************************)
(* Show(theater_name, theater_url, show_title) on its own,                 *)
(* data_schema.py lines 32-89                                              *)
(***************************************************************************)
\* what a call gives back
Returns(v) == [value |-> v]

Raises(e) == [raised |-> e]

HasReturned(r) == "value" \in DOMAIN r

HasRaised(r) == "raised" \in DOMAIN r

\* titles and theater names: blank ones, usable ones, and values that are
\* not text
NameTexts ==
    {None, Empty, Str(<<" ">>), Str(<<"\t">>), Str(<<" ", "\n", " ">>),
     Hamlet, Str(<<" ", "H", "a", "m", "l", "e", "t", " ">>), Str(<<"&", "n", "b", "s", "p", ";">>), Num(0), Num(5)}

InitShow ==
    /\ pc = "show"
    /\ args \in {[theater_name |-> tn, theater_url |-> Str(BaseUrl),
                  show_title |-> st] : tn \in NameTexts, st \in NameTexts}
    /\ ret = None
    /\ today = 0
    /\ NoScan
    /\ NoParse
    /\ NoSession
    /\ NoFetch

\* the generated __init__ assigns the fields, then calls __post_init__
Construct ==
    /\ pc = "show"
    /\ \E e \in {ShowException(args.theater_name, args.show_title)} :
         ret' = IF IsNone(e) THEN Returns(MakeShow(args)) ELSE Raises(e)
    /\ pc' = "constructed"
    /\ UNCHANGED <<args, today, scanVars, parseVars, sessionVars, fetchVars>>

NextShow == Construct

SpecShow == InitShow /\ [][NextShow]_vars

(***************************************************************************)
(* OvationTixScraper._extract_event_from_row on its own, in two steps:     *)
(* up to the Show the constructor returns (lines 59-111), then the rest    *)
(* (lines 113-126)                                                         *)
(***************************************************************************)
RowTitles == {<<"H", "a", "m", "l", "e", "t">>, <<"O", "t", "h", "e", "l", "l", "o">>, <<" ">>}

RowNotes == {<<>>, <<" ", "C", "A", "N", "C", "E", "L", "E", "D">>, <<" ", "S", "o", "l", "d", " ", "O", "u", "t">>, <<" ", "(", "c", "a", "n", "c", "e", "l", "e", "d", ")">>}

Rows ==
    {Row(n, dt, st, ti, <<>>, <<"M", "a", "i", "n">>, None, ti \o note) :
        n \in {3, 5, 6},
        dt \in {Date1Long, Date1Long \o <<" ", "-", " ">> \o Date2Long},
        st \in {<<>>, <<"G", "a", "l", "a">>},
        ti \in RowTitles,
        note \in RowNotes}

InitRow ==
    /\ pc = "row"
    /\ args \in Rows
    /\ ret = None
    /\ today = 0
    /\ NoScan
    /\ NoParse
    /\ NoSession
    /\ NoFetch

\* lines 59-111: show = Show(...), or an early return of None
ConstructRow ==
    /\ pc = "row"
    /\ IF NoShowOfRow(args)
       THEN /\ ret' = Returns(None)
            /\ pc' = "row done"
            /\ UNCHANGED show
       ELSE /\ show' = ConstructedShow(args)
            /\ pc' = "made"
            /\ UNCHANGED ret
    /\ UNCHANGED <<args, today, event_data, scanVars, sessionVars, fetchVars>>

\* lines 113-126: the status is set on the Show, which is returned
SetStatus ==
    /\ pc = "made"
    /\ show' = WithStatus(show, args)
    /\ ret' = Returns(show')
    /\ pc' = "row done"
    /\ UNCHANGED <<args, today, event_data, scanVars, sessionVars, fetchVars>>

NextRow == ConstructRow \/ SetStatus

SpecRow == InitRow /\ [][NextRow]_vars

(***************************************************************************)
(* to_dict, src/scraper/base/data_schema.py lines 28-29, 61-75, 102-112    *)
(***************************************************************************)
\* ShowStatus, lines 12-18: the value of a member
ShowStatusValue(member) ==
    CASE member = "upcoming" -> <<"u", "p", "c", "o", "m", "i", "n", "g">>
      [] member = "running" -> <<"r", "u", "n", "n", "i", "n", "g">>
      [] member = "closed" -> <<"c", "l", "o", "s", "e", "d">>
      [] member = "canceled" -> <<"c", "a", "n", "c", "e", "l", "e", "d">>
      [] member = "postponed" -> <<"p", "o", "s", "t", "p", "o", "n", "e", "d">>

ShowStatuses == {"upcoming", "running", "closed", "canceled", "postponed"}

\* the fields of Show that hold a list, lines 50-51
ListFields == {"genres", "cast"}

\* ShowDates.to_dict, lines 28-29
ShowDatesToDict(dates) ==
    [k \in {f \in {"start", "end", "schedule"} : dates[f] # None} |-> dates[k]]

\* asdict on the nested ShowDates, line 64: a dict of its three fields;
\* Show.to_dict copies it as it is (lines 67-68)
AsDictDates(dates) == [k \in {"start", "end", "schedule"} |-> dates[k]]

\* lines 64-65 and 70-71: the field is skipped
Skipped(sh, key) ==
    IF key \in ListFields THEN sh[key] = <<>>
    ELSE IF key \in {"status", "scraper_version"} THEN FALSE
    ELSE sh[key] = None

\* Show.to_dict, lines 61-75
ShowToDict(sh) ==
    [key \in {f \in DOMAIN sh : ~Skipped(sh, f)} |->
        IF key = "dates" THEN AsDictDates(sh.dates)
        ELSE IF key = "status" THEN Str(ShowStatusValue(sh.status))
        ELSE sh[key]]

\* ScraperResult.to_dict, lines 102-112
ResultToDict(r) ==
    [theater_name |-> r.theater_name,
     success |-> r.success,
     shows |-> [j \in 1..Len(r.shows) |-> ShowToDict(r.shows[j])],
     show_count |-> Len(r.shows),
     error |-> r.error,
     warnings |-> r.warnings,
     scraped_at |-> r.scraped_at]

DateValues == {None, Str(Date1)}

DatesValues ==
    {None} \cup {ShowDates(st, en, sc) :
                    st \in DateValues, en \in {None, Str(Date2)},
                    sc \in {None, Str(Date1Long)}}

\* Shows to serialise
DictShows ==
    {MakeShow([theater_name |-> TheaterName, theater_url |-> Str(BaseUrl),
               show_title |-> Hamlet, dates |-> ds, venue |-> vn,
               genres |-> gs, status |-> st]) :
        ds \in DatesValues, vn \in {None, Str(<<"M", "a", "i", "n">>)},
        gs \in {<<>>, <<Str(<<"D", "r", "a", "m", "a">>)>>}, st \in ShowStatuses}

\* results to serialise
DictResults ==
    {ScraperResult(TRUE, sh, None, <<>>) :
        sh \in {<<>>, <<GoodShow>>, <<GoodShow, ShortShow>>}}
      \cup {ScraperResult(FALSE, <<>>, Msg(NoShowsError), NoShowsWarnings)}

InitDict ==
    /\ pc = "to_dict"
    /\ args \in {[show |-> sh] : sh \in DictShows}
                  \cup {[result |-> r] : r \in DictResults}
    /\ ret = None
    /\ today = 0
    /\ NoScan
    /\ NoParse
    /\ NoSession
    /\ NoFetch

\* show.to_dict()
ShowToDictCall ==
    /\ pc = "to_dict"
    /\ "show" \in DOMAIN args
    /\ ret' = Returns(ShowToDict(args.show))
    /\ pc' = "show dict"
    /\ UNCHANGED <<args, today, scanVars, parseVars, sessionVars, fetchVars>>

\* result.to_dict()
ResultToDictCall ==
    /\ pc = "to_dict"
    /\ "result" \in DOMAIN args
    /\ ret' = Returns(ResultToDict(args.result))
    /\ pc' = "result dict"
    /\ UNCHANGED <<args, today, scanVars, parseVars, sessionVars, fetchVars>>

NextDict == ShowToDictCall \/ ResultToDictCall

SpecDict == InitDict /\ [][NextDict]_vars

(***************************************************************************)
(* BaseScraper.fetch_page, src/scraper/base/base_scraper.py lines 62-118,  *)
(* one action per way a request can end                                    *)
(***************************************************************************)
MaxRetryCount == 3

\* line 89: the seconds slept before a response is returned
RateLimit == 1

\* the status codes for which raise_for_status raises HTTPError
ErrorCodes == {400, 401, 403, 404, 429, 500, 503}

\* those of them that are client errors
ClientErrorCodes == {c \in ErrorCodes : c < 500}

\* a bug: a 404 is retried
NoRetryCodesMut == {403}

\* line 102
NoRetryCodes == {403, 404}

\* lines 96, 106, 111 and 116: the seconds slept after attempt n failed
RetrySleep(retry_delay, n) == retry_delay * (n + 1)

\* an entry of slept: the loop variable at the time, and the seconds
Sleep(n, seconds) == [attempt |-> n, seconds |-> seconds]

InitFetch ==
    /\ pc = "fetch"
    /\ args \in {[retry_count |-> n, retry_delay |-> d] :
                    n \in 0..MaxRetryCount, d \in {1, 2}}
    /\ ret = None
    /\ today = 0
    /\ attempt = 0
    /\ answers = <<>>
    /\ slept = <<>>
    /\ response = None
    /\ NoScan
    /\ NoParse
    /\ NoSession

\* lines 95-96, 105-106, 110-111, 115-116, and the next round of the loop
AfterFailure(answer) ==
    /\ answers' = Append(answers, answer)
    /\ slept' = IF attempt < args.retry_count - 1
                THEN Append(slept,
                            Sleep(attempt,
                                  RetrySleep(args.retry_delay, attempt)))
                ELSE slept
    /\ attempt' = attempt + 1
    /\ pc' = "fetch"
    /\ UNCHANGED response

\* lines 80-91: the request succeeds and its response is returned
FetchOk ==
    /\ pc = "fetch"
    /\ attempt < args.retry_count
    /\ \E code \in {200, 204} :
         /\ answers' = Append(answers, [kind |-> "ok", status_code |-> code])
         /\ response' = [status_code |-> code]
    /\ slept' = Append(slept, Sleep(attempt, RateLimit))
    /\ pc' = "fetched"
    /\ log' = Append(log, LogRecord("debug",
                  <<"Fetching (attempt ", ToString(attempt + 1), "/",
                    ToString(args.retry_count), ")">>))
    /\ UNCHANGED <<attempt, args, today, ret, scanVars, parseVars, platform,
                   shows, ep, kw, attempted, sres, raised, rres>>

\* lines 93-98
FetchSslError ==
    /\ pc = "fetch"
    /\ attempt < args.retry_count
    /\ AfterFailure([kind |-> "ssl"])
    /\ log' = log
         \o <<LogRecord("debug",
                  <<"Fetching (attempt ", ToString(attempt + 1), "/",
                    ToString(args.retry_count), ")">>),
              LogRecord("warning",
                  <<"SSL error on attempt ", ToString(attempt + 1), ": ">>)>>
         \o (IF attempt < args.retry_count - 1 THEN <<>>
             ELSE <<LogRecord("error",
                        <<"SSL error after ", ToString(args.retry_count),
                          " attempts: ">>)>>)
    /\ UNCHANGED <<args, today, ret, scanVars, parseVars, platform, shows, ep, kw,
                   attempted, sres, raised, rres>>

\* lines 100-106: raise_for_status raised
FetchHttpError ==
    /\ pc = "fetch"
    /\ attempt < args.retry_count
    /\ \E code \in ErrorCodes :
         /\ IF code \in NoRetryCodes
            THEN /\ answers' = Append(answers,
                                   [kind |-> "http", status_code |-> code])
                 /\ response' = None
                 /\ pc' = "fetched"
                 /\ UNCHANGED <<attempt, slept>>
            ELSE AfterFailure([kind |-> "http", status_code |-> code])
         /\ log' = log
              \o <<LogRecord("debug",
                       <<"Fetching (attempt ", ToString(attempt + 1), "/",
                         ToString(args.retry_count), ")">>),
                   LogRecord("error",
                       <<"HTTP error: ", ToString(code), " - ">>)>>
    /\ UNCHANGED <<args, today, ret, scanVars, parseVars, platform, shows, ep, kw,
                   attempted, sres, raised, rres>>

\* lines 108-111
FetchTimeout ==
    /\ pc = "fetch"
    /\ attempt < args.retry_count
    /\ AfterFailure([kind |-> "timeout"])
    /\ log' = log
         \o <<LogRecord("debug",
                  <<"Fetching (attempt ", ToString(attempt + 1), "/",
                    ToString(args.retry_count), ")">>),
              LogRecord("warning",
                  <<"Timeout on attempt ", ToString(attempt + 1), ": ">>)>>
    /\ UNCHANGED <<args, today, ret, scanVars, parseVars, platform, shows, ep, kw,
                   attempted, sres, raised, rres>>

\* lines 113-116: any other RequestException, a refused connection for one
FetchRequestError ==
    /\ pc = "fetch"
    /\ attempt < args.retry_count
    /\ AfterFailure([kind |-> "request"])
    /\ log' = log
         \o <<LogRecord("debug",
                  <<"Fetching (attempt ", ToString(attempt + 1), "/",
                    ToString(args.retry_count), ")">>),
              LogRecord("error", <<"Request error: ">>)>>
    /\ UNCHANGED <<args, today, ret, scanVars, parseVars, platform, shows, ep, kw,
                   attempted, sres, raised, rres>>

\* line 118: range(self.retry_count) is used up
FetchExhausted ==
    /\ pc = "fetch"
    /\ attempt >= args.retry_count
    /\ response' = None
    /\ pc' = "fetched"
    /\ UNCHANGED <<attempt, answers, slept, args, today, ret, scanVars, parseVars,
                   sessionVars>>

NextFetch ==
    \/ FetchOk
    \/ FetchSslError
    \/ FetchHttpError
    \/ FetchTimeout
    \/ FetchRequestError
    \/ FetchExhausted

SpecFetch == InitFetch /\ [][NextFetch]_vars

(***************************************************************************)
(* parse_date_range on its own, parsing.py lines 32-66                     *)
(***************************************************************************)
\* the years the clock may show
ClockYears == {2025, 2026}

\* a first date, a later date (each with and without its year) and a text
\* that is no date
Tba == <<"T", "B", "A">>

DateSides == {Date1Long, Date1Short, Date2Long, Date2Short, Tba}

\* sides that hold the last separator of the list themselves: the two dates
\* written YYYY-MM-DD and a text that is no date
TbaTba == <<"T", "B", "A", "-", "T", "B", "A">>

HyphenSides == {Date1, Date2, TbaTba}

\* the separators listed before the last one
LongSeparators == {Separators[j] : j \in 1..(Len(Separators) - 1)}

DateTexts ==
    {<<>>} \cup DateSides
      \cup {l \o Separators[j] \o r :
               l \in DateSides, j \in 1..Len(Separators), r \in DateSides}
      \cup {l \o sep \o r :
               l \in HyphenSides, sep \in LongSeparators,
               r \in DateSides \cup HyphenSides}
      \cup {l \o sep \o r :
               l \in DateSides, sep \in LongSeparators, r \in HyphenSides}

InitDates ==
    /\ pc = "dates"
    /\ args \in {[date_range_string |-> t] : t \in DateTexts}
    /\ today \in ClockYears
    /\ ret = None
    /\ NoScan
    /\ NoParse
    /\ NoSession
    /\ NoFetch

\* parse_date_range(date_range_string)
ParseRange ==
    /\ pc = "dates"
    /\ \E range \in {ParseDateRange(args.date_range_string)} :
         ret' = Returns([start |-> range[1], end |-> range[2]])
    /\ pc' = "ranged"
    /\ UNCHANGED <<args, today, scanVars, parseVars, sessionVars, fetchVars>>

NextDates == ParseRange

SpecDates == InitDates /\ [][NextDates]_vars

(***************************************************************************)
(* extract_price_range on its own, parsing.py lines 69-105                 *)
(***************************************************************************)
MaxFragments == 3

PriceFragments ==
    {<<"T", "i", "c", "k", "e", "t", "s", " ", "$", "2", "0", "-", "$", "6", "5">>, <<"r", "u", "s", "h", " ", "$", "1", "0">>, <<"S", "t", "a", "r", "t", "i", "n", "g", " ", "a", "t", " ", "$", "5">>, <<"f", "r", "o", "m", " ", "$", " ", "7", ".", "5", "0">>,
     <<"$", "1", "5", " ", EnDash, " ", "3", "0">>, <<"n", "o", " ", "p", "r", "i", "c", "e", " ", "i", "n", "f", "o">>,
     <<"S", "T", "A", "R", "T", "I", "N", "G", " ", " ", "A", "T", "$", "1", "2", ".", "5">>}

RECURSIVE JoinFragments(_)
JoinFragments(fs) ==
    IF fs = <<>> THEN <<>>
    ELSE IF Len(fs) = 1 THEN fs[1]
    ELSE fs[1] \o <<",", " ">> \o JoinFragments(Tail(fs))

PriceTexts ==
    {JoinFragments(fs) :
        fs \in UNION {[1..n -> PriceFragments] : n \in 0..MaxFragments}}

InitPrice ==
    /\ pc = "price"
    /\ args \in {[text |-> t] : t \in PriceTexts}
    /\ ret = None
    /\ today = 0
    /\ NoScan
    /\ NoParse
    /\ NoSession
    /\ NoFetch

\* extract_price_range(text)
ExtractPrice ==
    /\ pc = "price"
    /\ ret' = Returns(ExtractPriceRange(args.text))
    /\ pc' = "priced"
    /\ UNCHANGED <<args, today, scanVars, parseVars, sessionVars, fetchVars>>

NextPrice == ExtractPrice

SpecPrice == InitPrice /\ [][NextPrice]_vars

(***************************************************************************)
(* clean_text on its own, parsing.py lines 108-135, applied to a text and  *)
(* then to its own result                                                  *)
(***************************************************************************)
MaxPieces == 3

TextPieces ==
    {<<"a">>, <<" ">>, <<"\t">>, <<"&", "n", "b", "s", "p", ";">>, <<"&", "a", "m", "p", ";">>, <<"n", "b", "s", "p", ";">>,
     <<"&", "q", "u", "o", "t", ";">>}

RECURSIVE Concat(_)
Concat(ps) == IF ps = <<>> THEN <<>> ELSE Head(ps) \o Concat(Tail(ps))

CleanTexts ==
    {Concat(ps) : ps \in UNION {[1..n -> TextPieces] : n \in 0..MaxPieces}}

InitClean ==
    /\ pc = "clean"
    /\ args \in {[text |-> Str(t)] : t \in CleanTexts}
    /\ ret = None
    /\ today = 0
    /\ NoScan
    /\ NoParse
    /\ NoSession
    /\ NoFetch

\* clean_text(text)
CleanOnce ==
    /\ pc = "clean"
    /\ ret' = [value |-> CleanText(args.text)]
    /\ pc' = "cleaned"
    /\ UNCHANGED <<args, today, scanVars, parseVars, sessionVars, fetchVars>>

\* clean_text of what clean_text returned
CleanAgain ==
    /\ pc = "cleaned"
    /\ ret' = [value |-> ret.value, again |-> CleanText(ret.value)]
    /\ pc' = "recleaned"
    /\ UNCHANGED <<args, today, scanVars, parseVars, sessionVars, fetchVars>>

NextClean == CleanOnce \/ CleanAgain

SpecClean == InitClean /\ [][NextClean]_vars

(***************************************************************************)
(* Two scrapers for different theaters whose run() calls are interleaved.  *)
(* Every variable of this specification is a function: pc, args, answers   *)
(* and rres of the theater, ret, response, shows and sres of the object    *)
(* the attributes live on.  log is the one stream the logging module       *)
(* writes the records of every logger to.                                  *)
(***************************************************************************)
Theaters == {"north", "south"}

\* a bug: the attributes are set on the class, which every scraper shares
OwnMut(t) == "north"

\* self in BaseScraper.__init__: the attributes are those of the new object
Own(t) == t

\* self.logger.<level>(msg) of getLogger(f"{__name__}.{theater_name}")
NamedRecord(name, level, msg) ==
    [logger |-> name, level |-> level, msg |-> msg]

\* the Shows and the result carry the theater_name of the scraper
Named(r, name) ==
    [r EXCEPT !.theater_name = name,
              !.shows = [j \in 1..Len(r.shows) |->
                            [r.shows[j] EXCEPT !.theater_name = name]]]

\* SquarespaceScraper.scrape, lines 175-217, of the scraper called name
\* when fetch_page gives fetch
ScrapeOutcome(fetch, name) ==
    IF fetch.kind = "raises"
    THEN IF CatchesException(fetch.exc)
         THEN Returns(Named(ScraperResult(FALSE, <<>>, fetch.exc.msg, <<>>),
                            name))
         ELSE Raises(fetch.exc)
    ELSE IF fetch.kind = "none"
    THEN Returns(Named(ScraperResult(FALSE, <<>>,
                           Str(<<"Failed to fetch calendar page: ">>
                                   \o CalendarUrl), <<>>), name))
    ELSE IF ItemShows(fetch.items) # <<>>
    THEN Returns(Named(ScraperResult(TRUE, ItemShows(fetch.items), None,
                                     <<>>), name))
    ELSE Returns(Named(ScraperResult(FALSE, <<>>,
                           Msg("No events found on calendar page"),
                           <<Msg("Calendar page loaded but no events were parsed")>>),
                       name))

\* the loop of run, lines 175-177, or the exception scrape() raised
Validation(out) ==
    IF HasReturned(out)
    THEN ValidateAll(out.value.shows, out.value.warnings)
    ELSE [warnings |-> <<>>, exc |-> out.raised]

\* BaseScraper.run, lines 163-193, after scrape() gave out
RunOutcome(out, name) ==
    LET v == Validation(out)
    IN  IF IsNone(v.exc)
        THEN Returns([out.value EXCEPT !.warnings = v.warnings])
        ELSE IF RunCatches(v.exc)
        THEN Returns(Named(ScraperResult(FALSE, <<>>, v.exc.msg, <<>>), name))
        ELSE Raises(v.exc)

\* run() of the scraper of theater t with no other scraper in the process
RunAlone(t) ==
    RunOutcome(ScrapeOutcome(answers[args[t].base_url],
                             args[t].theater_name),
               args[t].theater_name)

InitSessions ==
    /\ pc = [t \in Theaters |-> "new"]
    /\ args = [t \in Theaters |-> [theater_name |-> Msg(t), base_url |-> t]]
    /\ answers \in [Theaters -> CalendarFetches]
    /\ ret = [t \in Theaters |-> None]
    /\ response = [t \in Theaters |-> None]
    /\ shows = [t \in Theaters |-> <<>>]
    /\ sres = [t \in Theaters |-> None]
    /\ rres = [t \in Theaters |-> None]
    /\ log = <<>>
    /\ platform = "squarespace"
    /\ ep = 0
    /\ kw = 0
    /\ attempted = <<>>
    /\ raised = None
    /\ today = 0
    /\ attempt = 0
    /\ slept = <<>>
    /\ NoScan
    /\ NoParse

\* SquarespaceScraper(theater_name, base_url): BaseScraper.__init__,
\* lines 19-48
NewScraper(t) ==
    /\ pc[t] = "new"
    /\ ret' = [ret EXCEPT ![Own(t)] =
                  [theater_name |-> args[t].theater_name,
                   base_url |-> args[t].base_url]]
    /\ pc' = [pc EXCEPT ![t] = "built"]
    /\ UNCHANGED <<args, answers, response, shows, sres, rres, log>>
    /\ UNCHANGED <<platform, ep, kw, attempted, raised, today, attempt,
                   slept, scanVars, parseVars>>

\* run() up to the return of self.fetch_page(self.calendar_url) in
\* scrape(): the request goes through self.session
FetchCalendar(t) ==
    /\ pc[t] = "built"
    /\ response' = [response EXCEPT ![Own(t)] = answers[ret[Own(t)].base_url]]
    /\ log' = log \o <<NamedRecord(ret[Own(t)].theater_name, "info",
                           <<"Starting scrape for ">>
                               \o ret[Own(t)].theater_name.str),
                       NamedRecord(ret[Own(t)].theater_name, "info",
                           <<"Fetching calendar: ",
                             ret[Own(t)].base_url, "/calendar">>)>>
    /\ pc' = [pc EXCEPT ![t] = "fetched"]
    /\ UNCHANGED <<args, answers, ret, shows, sres, rres>>
    /\ UNCHANGED <<platform, ep, kw, attempted, raised, today, attempt,
                   slept, scanVars, parseVars>>

\* the rest of scrape(), lines 184-217: the containers of the response are
\* parsed into the show list and the result is made
ParseCalendar(t) ==
    /\ pc[t] = "fetched"
    /\ \E out \in {ScrapeOutcome(response[Own(t)],
                                 ret[Own(t)].theater_name)} :
         /\ sres' = [sres EXCEPT ![Own(t)] = out]
         /\ shows' = [shows EXCEPT ![Own(t)] =
                         IF HasReturned(out) THEN out.value.shows ELSE <<>>]
         /\ log' = log \o
               (IF response[Own(t)].kind = "response"
                THEN <<NamedRecord(ret[Own(t)].theater_name, "info",
                          <<"Found ",
                            ToString(Len(response[Own(t)].items)),
                            " potential event containers">>)>>
                     \o [j \in 1..Len(ItemWarnings(response[Own(t)].items)) |->
                            NamedRecord(ret[Own(t)].theater_name, "warning",
                                ItemWarnings(response[Own(t)].items)[j].msg)]
                     \o [j \in 1..Len(out.value.shows) |->
                            NamedRecord(ret[Own(t)].theater_name, "debug",
                                <<"Parsed: ">>
                                    \o out.value.shows[j].show_title.str)]
                ELSE IF response[Own(t)].kind = "raises"
                THEN <<NamedRecord(ret[Own(t)].theater_name, "error",
                          <<"Error scraping ">>
                              \o ret[Own(t)].theater_name.str)>>
                ELSE <<>>)
    /\ pc' = [pc EXCEPT ![t] = "scraped"]
    /\ UNCHANGED <<args, answers, ret, response, rres>>
    /\ UNCHANGED <<platform, ep, kw, attempted, raised, today, attempt,
                   slept, scanVars, parseVars>>

\* run(), lines 175-193: the shows of the result are validated and the
\* result is returned to the caller
ValidateResult(t) ==
    /\ pc[t] = "scraped"
    /\ \E out \in {RunOutcome(sres[Own(t)], ret[Own(t)].theater_name)} :
         /\ rres' = [rres EXCEPT ![t] = out]
         /\ log' = log \o
               (IF IsNone(Validation(sres[Own(t)]).exc)
                THEN <<NamedRecord(ret[Own(t)].theater_name, "info",
                          <<"Scrape complete for ">>
                              \o ret[Own(t)].theater_name.str
                              \o <<": ", ToString(Len(out.value.shows)),
                                   " shows, ",
                                   ToString(Len(out.value.warnings)),
                                   " warnings">>)>>
                ELSE IF HasReturned(out)
                THEN <<NamedRecord(ret[Own(t)].theater_name, "error",
                          <<"Unexpected error scraping ">>
                              \o ret[Own(t)].theater_name.str)>>
                ELSE <<>>)
    /\ pc' = [pc EXCEPT ![t] = "ran"]
    /\ UNCHANGED <<args, answers, ret, response, shows, sres>>
    /\ UNCHANGED <<platform, ep, kw, attempted, raised, today, attempt,
                   slept, scanVars, parseVars>>

NextSessions ==
    \E t \in Theaters :
        \/ NewScraper(t)
        \/ FetchCalendar(t)
        \/ ParseCalendar(t)
        \/ ValidateResult(t)

SpecSessions == InitSessions /\ [][NextSessions]_vars

(***************************************************************************)
(* The description of a record (wordpress_spektrix.py lines 82-88) and of  *)
(* an event container (squarespace.py lines 102-108), on texts whose       *)
(* cleaned length lies on both sides of the limit                          *)
(***************************************************************************)
Margin == 3

LongBy == 40

\* the lengths of the body of a description
BodyLengths ==
    {0, 1} \cup ((DescMax - Margin)..(DescMax + Margin))
        \cup {DescMax + LongBy}

\* a body of n characters, as it is, between blanks, with a run of blanks
\* in it, and with an entity in front of it
DescriptionTexts ==
    UNION {{Rep("x", n),
            <<" ", " ">> \o Rep("x", n) \o <<" ">>,
            <<"a", " ", " ", "b">> \o Rep("x", n),
            <<"&", "a", "m", "p", ";">> \o Rep("x", n)} : n \in BodyLengths}

DescriptionRecords ==
    {Entry("title", Hamlet) @@ Entry(k, Str(t)) :
        k \in {"description", "synopsis"}, t \in DescriptionTexts}

DescriptionItems ==
    {EventItem(Hamlet, None, None, None, None, None, Str(t)) :
        t \in DescriptionTexts}

InitDescribe ==
    /\ pc = "describe"
    /\ event_data \in DescriptionRecords \cup DescriptionItems
    /\ show = None
    /\ NoScan
    /\ NoSession
    /\ NoCall
    /\ NoFetch

\* _parse_spektrix_event on a record of the API
DescribeRecord ==
    /\ pc = "describe"
    /\ event_data \in DescriptionRecords
    /\ show' = ParseSpektrixEvent(event_data, TheaterName, BaseUrl)
    /\ pc' = "described"
    /\ UNCHANGED <<event_data, scanVars, sessionVars, callVars, fetchVars>>

\* _parse_event_item on a container of the calendar page
DescribeItem ==
    /\ pc = "describe"
    /\ event_data \in DescriptionItems
    /\ show' = ParseEventItem(event_data)
    /\ pc' = "described"
    /\ UNCHANGED <<event_data, scanVars, sessionVars, callVars, fetchVars>>

NextDescribe == DescribeRecord \/ DescribeItem

SpecDescribe == InitDescribe /\ [][NextDescribe]_vars

(***************************************************************************)
(* What the scanner is to return, stated position by position and          *)
(* independently of the loop: b is the opening bracket.                    *)
(***************************************************************************)
\* the character at p is consumed by a backslash before it
RECURSIVE RefEscaped(_, _, _)
RefEscaped(t, b, p) ==
    p > b /\ At(t, p - 1) = BS /\ ~RefEscaped(t, b, p - 1)

\* neither a backslash nor a character a backslash consumes
RefLive(t, b, p) == ~RefEscaped(t, b, p) /\ At(t, p) # BS

\* the quote that opened the string p lies in, "" outside a string
RECURSIVE RefQuote(_, _, _)
RefQuote(t, b, p) ==
    IF p = b THEN ""
    ELSE LET q == RefQuote(t, b, p - 1)
             c == At(t, p - 1)
         IN  IF RefLive(t, b, p - 1) /\ c \in {DQ, SQ}
             THEN (IF q = "" THEN c ELSE IF q = c THEN "" ELSE q)
             ELSE q

\* a bracket outside every string literal
RefOutside(t, b, p) == At(t, p) \in {LB, RB} /\ RefQuote(t, b, p) = ""

\* a bracket outside every string literal that no backslash consumes
RefCounted(t, b, p) == RefOutside(t, b, p) /\ RefLive(t, b, p)

\* first ']' at which the depth over the brackets Cnt selects is zero, or -1
RefCloseOf(t, b, Cnt(_, _, _)) ==
    LET Depth(p) ==
            Cardinality({q \in b..p : Cnt(t, b, q) /\ At(t, q) = LB})
          - Cardinality({q \in b..p : Cnt(t, b, q) /\ At(t, q) = RB})
        cs == {p \in b..(Len(t) - 1) :
                  Cnt(t, b, p) /\ At(t, p) = RB /\ Depth(p) = 0}
    IN  IF cs = {} THEN -1 ELSE Min(cs)

RefClose(t, b) == RefCloseOf(t, b, RefCounted)

\* the first '[' at or after the end of the anchor, within LookAhead, or -1
RefBracket(t, n) ==
    LET e  == SearchEnd(t, n)
        bs == {p \in 0..(Len(t) - 1) :
                  e # -1 /\ p >= e /\ p < e + LookAhead /\ At(t, p) = LB}
    IN  IF bs = {} THEN -1 ELSE Min(bs)

\* the array literal that opens at b and closes at c
RefArray(t, b, c) == Str(Slice(t, b, c + 1))

\* the result the description fixes, given which brackets count
Describes(Cnt(_, _, _)) ==
    LET b == RefBracket(text, kwlen)
        c == IF b = -1 THEN -1 ELSE RefCloseOf(text, b, Cnt)
    IN  /\ (b = -1 => result = None)
        /\ (result # None => c # -1 /\ result = RefArray(text, b, c))
        /\ (c # -1 /\ c - b <= ScanLimit => result = RefArray(text, b, c))

(***************************************************************************)
(* C7 (as stated): the returned text runs from the first '[' after the     *)
(* anchor through the first ']' at which the depth is zero, where only the *)
(* brackets inside a string literal are left uncounted.                    *)
(***************************************************************************)
C7_Original == pc = "done" => Describes(RefOutside)

(***************************************************************************)
(* C7 (amended): as above, except that a bracket immediately after an      *)
(* unescaped backslash is not counted either, inside or outside a string;  *)
(* the array is returned whenever its closing bracket lies within the scan *)
(* bound, and whatever is returned is that array.  The example text gives  *)
(* the example array.                                                      *)
(***************************************************************************)
C7_ExtractsArray ==
    pc = "done" =>
        /\ Describes(RefCounted)
        /\ (text = ExampleText => result = Str(ExampleArray))

C7_Witness ==
    /\ pc = "done"
    /\ text = ExampleText
    /\ result = Str(ExampleArray)

(***************************************************************************)
(* C8: no returned array closes more than ScanLimit characters after its   *)
(* opening bracket, and when the depth has not returned to zero within the *)
(* bound the result is None.                                               *)
(***************************************************************************)
C8_BoundRespected ==
    pc = "done" =>
        LET b == RefBracket(text, kwlen)
            c == IF b = -1 THEN -1 ELSE RefClose(text, b)
        IN  /\ (result # None => Len(result.str) - 1 <= ScanLimit)
            /\ (b # -1 /\ (c = -1 \/ c - b > ScanLimit) => result = None)

(***************************************************************************)
(* C9: every loop iteration that does not return moves the scan index      *)
(* forward, the scan ends, and a text with no balancing closing bracket    *)
(* gives None.                                                             *)
(***************************************************************************)
C9_ScanTerminates ==
    /\ [][(pc = "scan" /\ i < Len(text))
            => (i' > i \/ (pc' = "done" /\ result' # None))]_vars
    /\ [](pc = "scan" => <>(pc = "done"))
    /\ [](pc = "done" /\ RefBracket(text, kwlen) # -1
                      /\ RefClose(text, RefBracket(text, kwlen)) = -1
            => result = None)

C9_Witness ==
    /\ pc = "done"
    /\ result = None
    /\ bracket_pos + ScanLimit < i
    /\ in_string

(***************************************************************************)
(* The value the first-non-empty rule resolves a field to                  *)
(***************************************************************************)
\* the value under the first of keys that d holds with a non-empty value
RECURSIVE FirstNonEmpty(_, _)
FirstNonEmpty(d, keys) ==
    IF keys = <<>> THEN Empty
    ELSE IF Head(keys) \in DOMAIN d /\ Truthy(d[Head(keys)])
         THEN d[Head(keys)]
         ELSE FirstNonEmpty(d, Tail(keys))

AllStrings(d) == IsDict(d) /\ \A k \in DOMAIN d : IsStr(d[k])

\* C10: in _parse_spektrix_event each field is resolved from the first key
\* of its priority list that is present with a non-empty value, a key that
\* is present but empty being skipped (title: title, name; start: start,
\* start_date, firstPerformance; url: url, link; price: price, pricing).
\* Stated for records whose values are all strings.
C10_FirstNonEmptyWins ==
    pc = "parsed" /\ AllStrings(event_data) =>
        LET title == CleanText(FirstNonEmpty(event_data, <<"title", "name">>))
            start == ParseDate(FirstNonEmpty(event_data,
                         <<"start", "start_date", "firstPerformance">>))
            url   == NormalizeUrl(FirstNonEmpty(event_data, <<"url", "link">>),
                                  BaseUrl)
            price == ExtractPriceRange(PyStr(FirstNonEmpty(event_data,
                         <<"price", "pricing">>)))
        IN  IF Strip(title.str) = <<>> THEN show = None
            ELSE /\ show # None
                 /\ show.show_title = title
                 /\ (IF show.dates = None THEN None ELSE show.dates.start)
                       = start
                 /\ show.ticket_url = OrNone(url)
                 /\ show.price_range = price

(***************************************************************************)
(* The strategy chain of WordPressSpektrixScraper.scrape                   *)
(***************************************************************************)
\* the order of the sources: the endpoints, the fetch of the page that the
\* scan reads, the scan with each keyword
Order == Endpoints \o <<"page">> \o Keywords

SourcesOf(att) == [j \in 1..Len(att) |-> att[j].source]

IsPrefix(a, b) == Len(a) <= Len(b) /\ a = SubSeq(b, 1, Len(a))

Spektrix == platform = "wordpress_spektrix"

\* C1: scrape consults its sources in the fixed order (the three
\* endpoints, then the page scan with its three keywords); a source is
\* invoked only after every earlier one was tried and gave no show, none is
\* invoked after one gave shows, and the returned list is exactly what the
\* single first source that gave shows produced.
C1_FixedOrder ==
    /\ [](Spektrix =>
            /\ IsPrefix(SourcesOf(attempted), Order)
            /\ \A j \in 1..(Len(attempted) - 1) : attempted[j].got = <<>>
            /\ (pc = "done" /\ sres # None =>
                  /\ attempted # <<>>
                  /\ sres.shows = attempted[Len(attempted)].got))
    /\ [][Spektrix /\ attempted' # attempted =>
            /\ \A j \in 1..Len(attempted) : attempted[j].got = <<>>
            /\ attempted' = Append(attempted, attempted'[Len(attempted')])
            /\ attempted'[Len(attempted')].source = Order[Len(attempted) + 1]
         ]_vars

C1_Witness ==
    /\ Spektrix
    /\ pc = "done"
    /\ Len(attempted) = 6
    /\ attempted[1].failure = "invalid json"
    /\ Len(attempted[6].got) = 1
    /\ sres.success
    /\ sres.shows = attempted[6].got

\* C2: a failure of one source (no response, a status other than 200,
\* invalid JSON, an embedded array that does not parse, an exception) never
\* aborts the chain: no exception leaves scrape, after a failed source the
\* next one is attempted, and a scrape that ends without shows has tried
\* every source (or could not fetch the page the scan reads).
C2_ChainNeverAborts ==
    /\ [](Spektrix =>
            /\ raised = None
            /\ (pc = "done" /\ sres.shows = <<>> =>
                  \/ SourcesOf(attempted) = Order
                  \/ /\ SourcesOf(attempted) = SubSeq(Order, 1, 4)
                     /\ attempted[4].failure # ""))
    /\ [][Spektrix /\ attempted' # attempted
            /\ attempted'[Len(attempted')].failure # ""
            /\ attempted'[Len(attempted')].source
                  \notin {"page", Keywords[Len(Keywords)]}
          => pc' \in {"api", "page", "anchor"}]_vars

C2_Witness ==
    /\ Spektrix
    /\ pc = "done"
    /\ raised = None
    /\ Len(attempted) = 7
    /\ attempted[1].failure = "exception"
    /\ attempted[2].failure = "invalid json"
    /\ attempted[3].failure = "status"
    /\ attempted[5].failure = "invalid json"
    /\ attempted[6].failure = "exception"
    /\ sres.success

\* the piece src occurs in the text m
Mentions(m, src) == ~IsNone(m) /\ \E k \in 1..Len(m.str) : m.str[k] = src

Failed(att) == {j \in 1..Len(att) : att[j].failure # ""}

\* C3 as stated: when every strategy returns empty or fails, the result
\* holds the empty show set and, for each strategy that failed, an error of
\* its own (in error or in warnings).
C3_ErrorsInResult ==
    Spektrix /\ pc = "done" /\ sres.shows = <<>> =>
        \A j \in Failed(attempted) :
            \/ Mentions(sres.error, attempted[j].source)
            \/ \E k \in 1..Len(sres.warnings) :
                   Mentions(sres.warnings[k], attempted[j].source)

\* C3: when every strategy returns empty or fails, scrape returns
\* success=false, no shows, the one fixed error "No shows found via API or
\* page scraping" and the one fixed warning "Could not find any event
\* data", whichever strategies failed; the failures that raised are
\* written to the log only.
C3_FixedFailureResult ==
    Spektrix /\ pc = "done" /\ raised = None /\ sres.shows = <<>> =>
        /\ sres = [theater_name |-> TheaterName, success |-> FALSE,
                   shows |-> <<>>,
                   error |-> Str(<<"No shows found via API or page scraping">>),
                   warnings |-> <<Str(<<"Could not find any event data">>)>>,
                   scraped_at |-> UtcNow]
        /\ Cardinality({j \in Failed(attempted) :
                           attempted[j].failure \in {"invalid json",
                                                     "exception"}})
             <= Cardinality({k \in 1..Len(log) :
                                log[k].level \in {"warning", "debug"}})

C3_Witness ==
    /\ Spektrix
    /\ pc = "done"
    /\ ~sres.success
    /\ Len(attempted) = 7
    /\ attempted[1].failure = "exception"
    /\ attempted[2].failure = "invalid json"
    /\ attempted[4].failure = ""
    /\ attempted[7].failure = "invalid json"

(***************************************************************************)
(* BaseScraper.run                                                         *)
(***************************************************************************)
\* the exception raised inside the try of run: by scrape() or, when it is
\* None, by the validation pass over what scrape() returned
RunException ==
    IF IsNone(sres) THEN Exc("", "")
    ELSE ValidateAll(sres.shows, sres.warnings).exc

\* C4: run never propagates an exception and always returns a ScraperResult:
\* when scrape() or the validation pass raises, the result has
\* success=false, no shows and the message of the exception as error;
\* otherwise it is the result of scrape().
C4_RunNeverRaises ==
    pc = "ran" =>
        /\ raised = None
        /\ rres # None
        /\ DOMAIN rres = {"theater_name", "success", "shows", "error",
                          "warnings", "scraped_at"}
        /\ IF IsNone(sres)
           THEN /\ ~rres.success /\ rres.shows = <<>>
                /\ rres.error = Str(<<"scrape failed">>)
           ELSE IF ~IsNone(RunException)
           THEN /\ ~rres.success /\ rres.shows = <<>>
                /\ rres.error = RunException.msg
           ELSE /\ rres.success = sres.success
                /\ rres.shows = sres.shows
                /\ rres.error = sres.error
                /\ rres.theater_name = sres.theater_name

C4_Witness ==
    /\ pc = "ran"
    /\ ~IsNone(sres)
    /\ sres.success
    /\ Len(sres.shows) = 2
    /\ ~IsNone(RunException)
    /\ ~rres.success
    /\ rres.shows = <<>>
    /\ rres.error = Str(<<"fromisoformat: argument must be str">>)

RECURSIVE AllWarnings(_)
AllWarnings(sh) ==
    IF sh = <<>> THEN <<>> ELSE ValidateShow(Head(sh)) \o AllWarnings(Tail(sh))

\* C5: validation only inspects: when the validation pass completes, the
\* show list of the result of run is exactly the list scrape() returned
\* (same shows, same order) whatever warnings were produced, and the
\* warnings are the ones already present followed by the new ones.
C5_ValidationOnlyInspects ==
    pc = "ran" /\ ~IsNone(sres) /\ IsNone(RunException) =>
        /\ rres.shows = sres.shows
        /\ IsPrefix(sres.warnings, rres.warnings)
        /\ rres.warnings = sres.warnings \o AllWarnings(sres.shows)

C5_Witness ==
    /\ pc = "ran"
    /\ ~IsNone(sres)
    /\ IsNone(RunException)
    /\ Len(sres.warnings) = 1
    /\ sres.shows = <<ShortShow, LooseDateShow>>
    /\ rres.shows = <<ShortShow, LooseDateShow>>
    /\ Len(rres.warnings) = 5

\* C6: no platform scraper ends a session that found no show with
\* success=true: a result with an empty show list has success=false and an
\* error that explains it.
C6_EmptyIsFailure ==
    pc = "done" /\ raised = None /\ sres.shows = <<>> =>
        ~sres.success /\ ~IsNone(sres.error)

(***************************************************************************)
(* Status resolution                                                       *)
(***************************************************************************)
\* the text under key k of d in lower case, empty when d does not hold k
LowerText(d, k) == IF k \in DOMAIN d THEN Lower(d[k].str) ELSE <<>>

\* the status after the rules are applied in order to the status before
AfterStatusText(before, st) ==
    IF Contains(st, <<"c", "a", "n", "c", "e", "l">>) THEN "canceled"
    ELSE IF Contains(st, <<"c", "l", "o", "s", "e", "d">>) \/ Contains(st, <<"p", "a", "s", "t">>) THEN "closed"
    ELSE before

AfterClassTag(before, cls) ==
    IF Contains(cls, <<"m", "a", "i", "n", "-", "s", "t", "a", "g", "e">>) \/ Contains(cls, <<"p", "e", "r", "f", "s">>) THEN "running" ELSE before

\* C11: the status of a Show of _parse_spektrix_event starts as upcoming;
\* a status text containing 'cancel' (any case) sets canceled, otherwise
\* one containing 'closed' or 'past' sets closed; then a className
\* containing 'main-stage' or 'perfs' sets running, also over a canceled
\* or closed status: the last rule that matches wins.
C11_LastRuleWins ==
    pc = "parsed" /\ show # None =>
        show.status =
            AfterClassTag(AfterStatusText("upcoming",
                                          LowerText(event_data, "status")),
                          LowerText(event_data, "className"))

C11_Witness ==
    /\ pc = "parsed"
    /\ show # None
    /\ "status" \in DOMAIN event_data
    /\ "className" \in DOMAIN event_data
    /\ Contains(LowerText(event_data, "status"), <<"c", "a", "n", "c", "e", "l">>)
    /\ Contains(LowerText(event_data, "status"), <<"p", "a", "s", "t">>)
    /\ show.status = "running"

(***************************************************************************)
(* Records that give no Show                                               *)
(***************************************************************************)
\* the record has no usable title: none under 'title' (or, with no 'title'
\* key, under 'name'), an empty one, or one that is blank once cleaned
NoUsableTitle(x) ==
    \/ ~Truthy(RawTitle(x))
    \/ (IsStr(RawTitle(x)) /\ Strip(CleanText(RawTitle(x)).str) = <<>>)

Unusable(x) ==
    \/ ~IsDict(x)
    \/ NoUsableTitle(x)
    \/ ParseRaises(x, TheaterName, BaseUrl)

\* C12: of a batch of records, a record without a usable title or whose
\* normalisation raises gives no Show, and only that record is dropped:
\* every other record gives its Show, the Shows are in the order of the
\* records, and the batch is processed to its end.
C12_OnlyBadRecordsDropped ==
    pc = "batched" =>
        LET xs == args.list
            got == ret.list
            kept == {j \in 1..Len(xs) : ~Unusable(xs[j])}
            rank(j) == Cardinality({h \in kept : h <= j})
        IN  /\ Len(got) = Cardinality(kept)
            /\ \A j \in kept :
                 /\ got[rank(j)] = BuildShow(xs[j], TheaterName, BaseUrl)
                 /\ got[rank(j)].show_title = CleanText(RawTitle(xs[j]))

C12_Witness ==
    /\ pc = "batched"
    /\ args.list = <<EvNumber, EvHamlet, NotARecord, EvBlank, EvOthello>>
                     \/ args.list = <<EvHamlet, EvNumber, EvOthello>>
    /\ Len(ret.list) = 2
    /\ ret.list[1].show_title = Hamlet
    /\ ret.list[2].show_title = Othello

(***************************************************************************)
(* Construction of a Show                                                  *)
(***************************************************************************)
\* v is text that is empty or holds white space only, or is no value
Blank(v) ==
    IsNone(v) \/ (IsStr(v) /\ \A k \in 1..Len(v.str) : v.str[k] \in Whitespace)

\* C13: constructing a Show with an empty or whitespace-only title or
\* theater name fails with an error and gives no Show; with a non-blank
\* title and theater name and every other field absent it succeeds and
\* the Show is upcoming; so a Show that exists has a non-empty title and a
\* non-empty theater name.
C13_BlankNamesRejected ==
    pc = "constructed" =>
        /\ (Blank(args.show_title) \/ Blank(args.theater_name))
             => HasRaised(ret)
        /\ (/\ IsStr(args.show_title) /\ ~Blank(args.show_title)
            /\ IsStr(args.theater_name) /\ ~Blank(args.theater_name))
             => /\ HasReturned(ret)
                /\ ret.value.status = "upcoming"
                /\ ret.value.show_title = args.show_title
                /\ ret.value.theater_name = args.theater_name
        /\ HasReturned(ret)
             => /\ IsStr(ret.value.show_title)
                /\ ret.value.show_title.str # <<>>
                /\ IsStr(ret.value.theater_name)
                /\ ret.value.theater_name.str # <<>>

C13_Witness ==
    /\ pc = "constructed"
    /\ args.show_title = Str(<<" ", "\n", " ">>)
    /\ args.theater_name = Hamlet
    /\ HasRaised(ret)
    /\ ret.raised = Exc("ValueError", "show_title cannot be empty")

\* the Shows of what scrape() returned, for each of the three scrapers, and
\* of what run() returned
C13_ResultsHaveNames ==
    \A r \in {sres, rres} :
        r # None =>
            \A k \in 1..Len(r.shows) :
                /\ ~Blank(r.shows[k].show_title)
                /\ ~Blank(r.shows[k].theater_name)

(***************************************************************************)
(* A Show after its construction                                           *)
(***************************************************************************)
\* C14: a Show is immutable once constructed: after the constructor has
\* returned it no field of it, the status included, is assigned again.
C14_NoFieldAssignedAfterConstruction ==
    [][show # None => show' = show]_vars

\* what the row gives is what the one-step model of the routine gives
RowStepsAgree ==
    pc = "row done" => ret = Returns(ExtractEventFromRow(args))

(***************************************************************************)
(* Serialisation                                                           *)
(***************************************************************************)
ResultKeys ==
    {"theater_name", "success", "shows", "show_count", "error", "warnings",
     "scraped_at"}

\* the serialised Show d holds no absent field, no absent sub-field of
\* dates, and the status as its token
OnlySetFields(d, sh) ==
    /\ \A key \in DOMAIN d \ (ListFields \cup {"status", "scraper_version",
                                               "dates"}) : d[key] # None
    /\ \A key \in DOMAIN sh \ (ListFields \cup {"status", "scraper_version"}) :
         sh[key] # None => key \in DOMAIN d
    /\ "dates" \in DOMAIN d =>
         /\ \A k \in DOMAIN d.dates : d.dates[k] # None
         /\ \A k \in {"start", "end", "schedule"} :
              sh.dates[k] # None => (k \in DOMAIN d.dates
                                       /\ d.dates[k] = sh.dates[k])
    /\ d.status = Str(Lower(d.status.str))
    /\ d.status.str = ShowStatusValue(sh.status)

\* C15: Show.to_dict serialises the fields that are set only: an absent
\* optional field is left out, the nested dates mapping holds only those
\* of start, end and schedule that are set, and the status is its
\* lowercase token; ScraperResult.to_dict has the keys theater_name,
\* success, shows, show_count, error, warnings and scraped_at, show_count
\* being the number of serialised shows.
C15_OnlySetFieldsSerialised ==
    /\ pc = "show dict" => OnlySetFields(ret.value, args.show)
    /\ pc = "result dict" =>
         /\ DOMAIN ret.value = ResultKeys
         /\ ret.value.show_count = Len(ret.value.shows)
         /\ \A j \in 1..Len(ret.value.shows) :
              OnlySetFields(ret.value.shows[j], args.result.shows[j])

(***************************************************************************)
(* The retries of fetch_page                                               *)
(***************************************************************************)
Last(s) == s[Len(s)]

\* a request that met a timeout, an SSL error or a server error
Retryable(answer) ==
    \/ answer.kind \in {"timeout", "ssl"}
    \/ (answer.kind = "http" /\ answer.status_code >= 500)

Forbidden(answer) ==
    answer.kind = "http" /\ answer.status_code \in {403, 404}

\* C16: fetch_page makes at most retry_count attempts; after a timeout, an
\* SSL error or a 5xx response it goes on to the next attempt while there
\* is one left; after a 403 or 404 it makes no further attempt; the first
\* successful response is returned at once; and when no attempt succeeded
\* it returns none, no exception leaving it.
C16_RetryProtocol ==
    /\ Len(answers) <= args.retry_count
    /\ \A j \in 1..(Len(answers) - 1) :
         answers[j].kind # "ok" /\ ~Forbidden(answers[j])
    /\ answers # <<>> /\ Retryable(Last(answers))
         => IF Len(answers) < args.retry_count
            THEN pc = "fetch" /\ attempt = Len(answers)
            ELSE pc = "fetch" \/ (pc = "fetched" /\ response = None)
    /\ answers # <<>> /\ Forbidden(Last(answers))
         => pc = "fetched" /\ response = None
    /\ answers # <<>> /\ Last(answers).kind = "ok"
         => /\ pc = "fetched"
            /\ response = [status_code |-> Last(answers).status_code]
    /\ pc = "fetched" /\ (answers = <<>> \/ Last(answers).kind # "ok")
         => response = None /\ raised = None

C16_Witness ==
    /\ pc = "fetched"
    /\ args.retry_count = 3
    /\ Len(answers) = 3
    /\ answers[1].kind = "timeout"
    /\ answers[2] = [kind |-> "http", status_code |-> 503]
    /\ answers[3] = [kind |-> "http", status_code |-> 404]
    /\ response = None

\* the sleeps between attempts: all but the one before a response is
\* returned
RetrySleeps ==
    SelectSeq(slept,
              LAMBDA sl : ~(answers[sl.attempt + 1].kind = "ok"))

\* C17: after any HTTP 4xx response fetch_page makes no further attempt;
\* a timeout, an SSL error or a 5xx response is retried a bounded number
\* of times, the delay after the n-th attempt being retry_delay x n, and
\* there is no delay after the final attempt.
C17_ClientErrorsNotRetried ==
    /\ \A j \in 1..(Len(answers) - 1) :
         ~(answers[j].kind = "http"
             /\ answers[j].status_code \in ClientErrorCodes)
    /\ Len(answers) <= args.retry_count
    /\ \A k \in 1..Len(RetrySleeps) :
         /\ RetrySleeps[k].seconds
              = args.retry_delay * (RetrySleeps[k].attempt + 1)
         /\ RetrySleeps[k].attempt + 1 < args.retry_count
    /\ \A j \in 1..Len(answers) :
         Retryable(answers[j]) /\ j < args.retry_count
           => \E k \in 1..Len(RetrySleeps) : RetrySleeps[k].attempt + 1 = j

(***************************************************************************)
(* Date ranges                                                             *)
(***************************************************************************)
\* t holds one of ' to ', ' - ', ' en-dash ', ' through ', en-dash, '-'
HasSeparator(t) ==
    \E j \in 1..Len(Separators) :
        \E p \in 0..(Len(t) - Len(Separators[j])) :
            SubSeq(t, p + 1, p + Len(Separators[j])) = Separators[j]

DayNumber(iso) ==
    (TwoDigits(iso, 0) * 100 + TwoDigits(iso, 2)) * 10000
      + TwoDigits(iso, 5) * 100 + TwoDigits(iso, 8)

\* a first date and a later date, each with or without its year, around a
\* separator
WellFormedRanges ==
    {l \o Separators[j] \o r :
        l \in {Date1Long, Date1Short}, j \in 1..Len(Separators),
        r \in {Date2Long, Date2Short}}

\* C19: for a well-formed two-sided range with any of the separators,
\* parse_date_range gives start <= end whenever both sides parse, also
\* when the year is written on one side only; 'Feb 21 - Mar 29, 2025'
\* gives ('2025-02-21', '2025-03-29').
C19_StartNotAfterEnd ==
    pc = "ranged" /\ args.date_range_string \in WellFormedRanges =>
        /\ ret.value.start # None /\ ret.value.end # None
             => DayNumber(ret.value.start.str) <= DayNumber(ret.value.end.str)
        /\ args.date_range_string
             = Date1Short \o <<" ", "-", " ">> \o Date2Long
             => ret.value = [start |-> Str(Date1), end |-> Str(Date2)]

(***************************************************************************)
(* Prices                                                                  *)
(***************************************************************************)
\* the positions of t at which a range, a 'starting at'/'from' price and a
\* price begin
RangePlaces(t) == {p \in 0..(Len(t) - 1) : RangeAt(t, p) # <<>>}

StartingPlaces(t) == {p \in 0..(Len(t) - 1) : StartingAt(t, p) # <<>>}

PricePlaces(t) == {p \in 0..(Len(t) - 1) : SingleAt(t, p) # <<>>}

Leftmost(ps) == CHOOSE p \in ps : \A q \in ps : p <= q

\* C20: extract_price_range tries the three patterns in a fixed order and
\* the first that matches anywhere in the text wins: a range gives
\* '$N-$M', also when a 'starting at'/'from' price or a bare price stands
\* before it; otherwise a 'starting at'/'from' price gives '$N+';
\* otherwise a price gives '$N'; otherwise the result is none.
\* 'Tickets $20-$65, rush $10' gives '$20-$65', 'Starting at $5' gives
\* '$5+', 'no price info' gives none.
C20_FirstPatternWins ==
    pc = "priced" =>
        LET t == args.text
            r == ret.value
        IN  /\ IF RangePlaces(t) # {}
               THEN LET g == RangeAt(t, Leftmost(RangePlaces(t)))
                    IN  r = Str(<<"$">> \o g[1] \o <<"-", "$">> \o g[2])
               ELSE IF StartingPlaces(t) # {}
               THEN LET g == StartingAt(t, Leftmost(StartingPlaces(t)))
                    IN  r = Str(<<"$">> \o g[1] \o <<"+">>)
               ELSE IF PricePlaces(t) # {}
               THEN LET g == SingleAt(t, Leftmost(PricePlaces(t)))
                    IN  r = Str(<<"$">> \o g[1])
               ELSE r = None
            /\ t = <<"T", "i", "c", "k", "e", "t", "s", " ", "$", "2", "0", "-", "$", "6", "5", ",", " ", "r", "u", "s", "h", " ", "$", "1", "0">> => r = Str(<<"$", "2", "0", "-", "$", "6", "5">>)
            /\ t = <<"r", "u", "s", "h", " ", "$", "1", "0", ",", " ", "T", "i", "c", "k", "e", "t", "s", " ", "$", "2", "0", "-", "$", "6", "5">> => r = Str(<<"$", "2", "0", "-", "$", "6", "5">>)
            /\ t = <<"S", "t", "a", "r", "t", "i", "n", "g", " ", "a", "t", " ", "$", "5", ",", " ", "T", "i", "c", "k", "e", "t", "s", " ", "$", "2", "0", "-", "$", "6", "5">> => r = Str(<<"$", "2", "0", "-", "$", "6", "5">>)
            /\ t = <<"S", "t", "a", "r", "t", "i", "n", "g", " ", "a", "t", " ", "$", "5">> => r = Str(<<"$", "5", "+">>)
            /\ t = <<"r", "u", "s", "h", " ", "$", "1", "0", ",", " ", "S", "t", "a", "r", "t", "i", "n", "g", " ", "a", "t", " ", "$", "5">> => r = Str(<<"$", "5", "+">>)
            /\ t = <<"r", "u", "s", "h", " ", "$", "1", "0">> => r = Str(<<"$", "1", "0">>)
            /\ t = <<"n", "o", " ", "p", "r", "i", "c", "e", " ", "i", "n", "f", "o">> => r = None

C20_Witness ==
    /\ pc = "priced"
    /\ args.text = <<"r", "u", "s", "h", " ", "$", "1", "0", ",", " ", "S", "t", "a", "r", "t", "i", "n", "g", " ", "a", "t", " ", "$", "5", ",", " ", "T", "i", "c", "k", "e", "t", "s", " ", "$", "2", "0", "-", "$", "6", "5">>
    /\ ret.value = Str(<<"$", "2", "0", "-", "$", "6", "5">>)

(***************************************************************************)
(* Cleaned text                                                            *)
(***************************************************************************)
\* t has no white space at either end and no two white spaces in a row
IsClean(t) ==
    /\ t # <<>> => t[1] \notin Whitespace /\ t[Len(t)] \notin Whitespace
    /\ \A k \in 1..(Len(t) - 1) :
         ~(t[k] \in Whitespace /\ t[k + 1] \in Whitespace)

\* C21: clean_text is idempotent and its output is clean: for every text
\* t, clean_text(clean_text(t)) = clean_text(t), and clean_text(t) has no
\* leading or trailing whitespace and no run of two or more whitespace
\* characters.
C21_CleanTextIdempotent ==
    /\ pc \in {"cleaned", "recleaned"} => IsClean(ret.value.str)
    /\ pc = "recleaned" => ret.again = ret.value

\* without the entities the statement holds
NoEntity(t) == \A k \in 1..Len(t) : t[k] # "&"

CleanWithoutEntities ==
    NoEntity(args.text.str) => C21_CleanTextIdempotent

(***************************************************************************)
(* C22: sessions of different theaters are independent                     *)
(***************************************************************************)
\* the records of the logger of theater t, in the order they were written
RECURSIVE RecordsOf(_, _)
RecordsOf(records, t) ==
    IF records = <<>> THEN <<>>
    ELSE (IF Head(records).logger = Msg(t) THEN <<Head(records)>> ELSE <<>>)
           \o RecordsOf(Tail(records), t)

\* C22: in every interleaving of the run() calls of two scrapers for
\* different theaters, what a scraper holds at each stage (its attributes,
\* the response its session got, its show list, the result of scrape()) is
\* what its own theater alone determines, the other scraper's objects are as
\* that scraper left them, and the ScraperResult run() returns is the one
\* the scraper returns when it runs alone
C22_SessionsIndependent ==
    \A t \in Theaters :
        /\ (pc[t] = "new") =>
               /\ ret[t] = None
               /\ response[t] = None
        /\ (pc[t] # "new") =>
               ret[t] = [theater_name |-> Msg(t), base_url |-> t]
        /\ (pc[t] \in {"new", "built"}) =>
               /\ response[t] = None
               /\ RecordsOf(log, t) = <<>>
        /\ (pc[t] \in {"fetched", "scraped", "ran"}) =>
               response[t] = answers[t]
        /\ (pc[t] \in {"new", "built", "fetched"}) =>
               /\ shows[t] = <<>>
               /\ sres[t] = None
        /\ (pc[t] \in {"scraped", "ran"}) =>
               /\ sres[t] = ScrapeOutcome(answers[t], Msg(t))
               /\ HasReturned(sres[t]) => shows[t] = sres[t].value.shows
               /\ \A j \in 1..Len(shows[t]) :
                      shows[t][j].theater_name = Msg(t)
        /\ (pc[t] # "ran") => rres[t] = None
        /\ (pc[t] = "ran") =>
               /\ rres[t] = RunAlone(t)
               /\ HasReturned(rres[t])
               /\ rres[t].value.theater_name = Msg(t)

\* both calls have returned, the steps of the two were interleaved (a
\* record of south lies between two records of north) and the two theaters
\* got different results: north its shows, south a failure
C22_Witness ==
    /\ \A t \in Theaters : pc[t] = "ran"
    /\ rres["north"].value.success
    /\ Len(rres["north"].value.shows) = 2
    /\ ~rres["south"].value.success
    /\ \E a, b, c \in DOMAIN log :
          /\ a < b
          /\ b < c
          /\ log[a].logger = Msg("north")
          /\ log[b].logger = Msg("south")
          /\ log[c].logger = Msg("north")

(***************************************************************************)
(* C23: the URLs of a Show are absolute                                    *)
(***************************************************************************)
HttpPrefix == <<"h", "t", "t", "p">>

\* the text starts with http:// or with https://
AlreadyAbsolute(v) ==
    /\ IsStr(v)
    /\ \/ StartsWith(v.str, <<"h", "t", "t", "p", ":", "/", "/">>)
       \/ StartsWith(v.str, <<"h", "t", "t", "p", "s", ":", "/", "/">>)

\* absent, or a text that starts with http
AbsentOrHttp(v) == IsNone(v) \/ (IsStr(v) /\ StartsWith(v.str, HttpPrefix))

\* the warning of validate_show about the ticket URL is among ws
WarnsOfTicketUrl(ws) ==
    \E j \in 1..Len(ws) : StartsWith(ws[j].str, <<"Invalid ticket URL: ">>)

\* C23: with the http(s) base URL of the theater, the ticket URL and the
\* image URL of every Show that _parse_spektrix_event returns are absent or
\* start with 'http', validate_show gives no 'Invalid ticket URL' warning
\* for the Show, a URL or image of the record that starts with http:// or
\* https:// is stored as it is, and a ticket URL is built from the instance
\* id only when the record gave none
C23_StoredUrlsAbsolute ==
    (pc = "parsed" /\ show # None) =>
        /\ AbsentOrHttp(show.ticket_url)
        /\ AbsentOrHttp(show.image_url)
        /\ ~WarnsOfTicketUrl(ValidateShow(show))
        /\ AlreadyAbsolute(RawUrl(event_data)) =>
               show.ticket_url = RawUrl(event_data)
        /\ AlreadyAbsolute(RawImage(event_data)) =>
               show.image_url = RawImage(event_data)
        /\ (~Truthy(RawUrl(event_data)) /\ Truthy(InstanceId(event_data))) =>
               /\ StartsWith(show.ticket_url.str,
                             BaseUrl \o <<"/", "p", "e", "r", "f", "o", "r", "m", "a", "n", "c", "e", "s", "/", "?", "i", "n", "s", "t", "a", "n", "c", "e", "I", "d", "=">>)
               /\ Len(show.ticket_url.str) >
                      Len(BaseUrl \o <<"/", "p", "e", "r", "f", "o", "r", "m", "a", "n", "c", "e", "s", "/", "?", "i", "n", "s", "t", "a", "n", "c", "e", "I", "d", "=">>)
        /\ (~Truthy(RawUrl(event_data)) /\ ~Truthy(InstanceId(event_data))) =>
               IsNone(show.ticket_url)

\* a Show whose ticket URL was resolved against the base URL and whose image
\* URL was given without a scheme
C23_Witness ==
    /\ pc = "parsed"
    /\ show # None
    /\ RawUrl(event_data) = Str(<<"s", "h", "o", "w", "s", "/", "1">>)
    /\ show.ticket_url = Str(BaseUrl \o <<"/", "s", "h", "o", "w", "s", "/", "1">>)
    /\ RawImage(event_data) = Str(<<"/", "/", "c", "d", "n", ".", "t", ".", "o", "r", "g", "/", "i", ".", "p", "n", "g">>)
    /\ show.image_url = Str(<<"h", "t", "t", "p", "s", ":", "/", "/", "c", "d", "n", ".", "t", ".", "o", "r", "g", "/", "i", ".", "p", "n", "g">>)

(***************************************************************************)
(* C24: the bound on the description                                       *)
(***************************************************************************)
\* the text of the description before cleaning
GivenDescription ==
    IF "excerpt" \in DOMAIN event_data THEN event_data.excerpt
    ELSE RawDescription(event_data)

\* C24: where n is the length of the cleaned description, the Show holds the
\* cleaned description itself when n <= 500 (None for an empty one of a
\* record) and its first 497 characters followed by '...', 500 characters in
\* all, when n > 500; no description of a Show is longer than 500
C24_DescriptionBound ==
    (pc = "described") =>
        /\ show # None
        /\ \E c \in {CleanText(GivenDescription).str} :
              /\ (Len(c) = 0) =>
                     show.description \in {None, Empty}
              /\ (Len(c) > 0 /\ Len(c) <= 500) =>
                     show.description = Str(c)
              /\ (Len(c) > 500) =>
                     /\ show.description
                            = Str(SubSeq(c, 1, 497) \o <<".", ".", ".">>)
                     /\ Len(show.description.str) = 500
              /\ IsNone(show.description)
                     \/ Len(show.description.str) <= 500

\* a cleaned description of 501 characters was cut to 500, and cleaning had
\* changed the text first
C24_Witness ==
    /\ pc = "described"
    /\ show # None
    /\ Len(GivenDescription.str) > 501
    /\ Len(CleanText(GivenDescription).str) = 501
    /\ Len(show.description.str) = 500
    /\ SubSeq(show.description.str, 496, 500) = <<"x", "x", ".", ".", ".">>

(***************************************************************************)
(* C25: the chain stops at the first source that yields                    *)
(***************************************************************************)
\* C25 as stated: once an endpoint or an embedded array has yielded at
\* least one record, no later endpoint, keyword or strategy is invoked
C25_StopsAtFirstRecords ==
    Spektrix =>
        \A j \in 1..(Len(attempted) - 1) : attempted[j].records = 0

\* C25 as amended: the chain stops at the first source whose records give
\* at least one Show.  Every source before the last one invoked gave no
\* Show; once a source has given a Show it is the last one invoked, its
\* Shows are the list of the scraper and the shows of the result; a source
\* whose records gave no Show does not stop the chain
C25_StopsAtFirstShows ==
    Spektrix =>
        \A j \in 1..Len(attempted) :
            /\ (attempted[j].got # <<>>) =>
                   /\ j = Len(attempted)
                   /\ attempted[j].records >= Len(attempted[j].got)
                   /\ pc \in {"return", "done"}
                   /\ shows = attempted[j].got
                   /\ (pc = "done") =>
                          /\ sres # None
                          /\ sres.success
                          /\ sres.shows = attempted[j].got
            /\ (attempted[j].got = <<>> /\ attempted[j].records > 0
                  /\ j < Len(Order)) =>
                   \/ Len(attempted) > j
                   \/ pc \in {"api", "page", "anchor"}

\* the first endpoint gave two records and no Show, the second endpoint was
\* invoked and gave the Show of the result, and no third source was invoked
C25_Witness ==
    /\ Spektrix
    /\ pc = "done"
    /\ Len(attempted) = 2
    /\ attempted[1].records = 2
    /\ attempted[1].got = <<>>
    /\ attempted[2].records = 1
    /\ Len(attempted[2].got) = 1
    /\ sres.success
    /\ sres.shows = attempted[2].got

(***************************************************************************)
(* C26: the separator is chosen by its place in the list                   *)
(***************************************************************************)
\* the places (from 0) at which sep occurs in t
Occurrences(t, sep) ==
    {p \in 0..(Len(t) - Len(sep)) : SubSeq(t, p + 1, p + Len(sep)) = sep}

\* the separators of the list that occur in t, by their place in the list
Listed(t) ==
    {j \in 1..Len(Separators) : Occurrences(t, Separators[j]) # {}}

\* C26: for a text that holds a separator, the separator used is the one of
\* the listed separators occurring in the text that comes first in the list
\* (no separator listed before it occurs in the text), whatever separator
\* occurs further left in the text; the text is cut at the first occurrence
\* of that separator, the part before it and the part after it are each
\* stripped and parsed on its own, and the pair of the two results (each may
\* be none) is what is returned, also when both are none
C26_SeparatorByListOrder ==
    (pc = "ranged" /\ Listed(args.date_range_string) # {}) =>
        \E j \in Listed(args.date_range_string) :
            /\ \A k \in 1..(j - 1) : k \notin Listed(args.date_range_string)
            /\ \E p \in Occurrences(args.date_range_string, Separators[j]) :
                  /\ \A q \in Occurrences(args.date_range_string,
                                          Separators[j]) : p <= q
                  /\ ret.value.start
                        = ParseDate(Str(Strip(
                              Slice(args.date_range_string, 0, p))))
                  /\ ret.value.end
                        = ParseDate(Str(Strip(
                              Slice(args.date_range_string,
                                    p + Len(Separators[j]),
                                    Len(args.date_range_string)))))

\* '2025-02-21 to 2025-03-29': the hyphen, last of the list, occurs first in
\* the text, and the text was cut at ' to '
C26_Witness ==
    /\ pc = "ranged"
    /\ args.date_range_string = Date1 \o <<" ", "t", "o", " ">> \o Date2
    /\ Min(Occurrences(args.date_range_string, <<"-">>))
          < Min(Occurrences(args.date_range_string, <<" ", "t", "o", " ">>))
    /\ ret.value.start = Str(Date1)
    /\ ret.value.end = Str(Date2)

\* 'TBA-TBA to TBA': both parts fail and (None, None) is returned
C26_BothFail ==
    (pc = "ranged" /\ args.date_range_string = TbaTba \o <<" ", "t", "o", " ">> \o Tba) =>
        /\ ret.value.start = None
        /\ ret.value.end = None

=============================================================================
